---- MODULE Spec2Model ----
(***************************************************************************)
(* State-machine model of the agentic package's tool execution path.       *)
(*                                                                         *)
(* ToolSandbox (tool-sandbox.ts) is modelled at the granularity of the     *)
(* JavaScript event loop: one action is one synchronous run of code (from  *)
(* a call or a resumed await up to the next await), a timer callback, the  *)
(* settle handlers of the wrapped tool promise, or a synchronous public    *)
(* method (cancel, cancelAll).  Caller-supplied code (the tool, the        *)
(* lifecycle hooks, the notification handlers) is an input: each time it   *)
(* runs the model chooses what it does.                                    *)
(*                                                                         *)
(* ToolGuard (tool-guard.ts) and ToolRegistry (tools.ts) are modelled one  *)
(* public method per action; arrays and counter objects live in a heap so  *)
(* that references shared between a caller and an instance are visible.    *)
(* Spec explores the sandbox, GuardSpec the guard, RegistrySpec the        *)
(* registry; each keeps the other components at their idle values.         *)
(*                                                                         *)
(* ContextManager (context-manager.ts) is modelled one public method per   *)
(* action under ContextSpec.                                               *)
(***************************************************************************)
EXTENDS Integers, Sequences, FiniteSets, TLC

\* ----------------------------------------------------------------- state
VARIABLES
    config,            \* this.config
    activeExecutions,  \* keys of this.activeExecutions
    executionCount,    \* this.executionCount
    nCalls,            \* execute invocations made so far
    calls,             \* per execute invocation: its position and bookkeeping
    lastCancel,        \* the cancel or cancelAll call that just returned, and its result
    env,               \* the caller-supplied code of this run (see Environments)
    \* ToolGuard (tool-guard.ts)
    guards,            \* per ToolGuard instance: this.config
    arrays,            \* the string[] objects that configs and callers refer to
    held,              \* the arrays the caller holds a reference to
    gLast,             \* the ToolGuard call that just returned, and its result
    \* ToolRegistry (tools.ts)
    tools,             \* this.tools, in Map order
    usageStats,        \* this.usageStats, in Map order
    stats,             \* the counter objects that usageStats and running executes refer to
    nRegs,             \* register calls that stored a tool so far
    execs,             \* per ToolRegistry.execute invocation: its position and bookkeeping
    nExecs,            \* ToolRegistry.execute invocations made so far
    rLast,             \* the ToolRegistry call that just returned, and its result
    zeroed,            \* history: the counter objects whose counts a resetStats discarded
    batch,             \* the executeBatch invocation: its position and bookkeeping
    secure,            \* the guarded and sandboxed invocations: what is attached, and one record per invocation
    \* ContextManager (context-manager.ts)
    items,             \* this.items, in Map order
    hashes,            \* this.hashes
    nGen,              \* ids made by generateId so far
    cLast              \* the ContextManager call that just returned, and its result

sandboxVars == <<config, activeExecutions, executionCount, nCalls, calls, lastCancel>>
guardVars == <<guards, arrays, held, gLast>>
registryVars == <<tools, usageStats, stats, nRegs, execs, nExecs, rLast, zeroed, batch, secure>>
contextVars == <<items, hashes, nGen, cLast>>
vars == <<sandboxVars, env, guardVars, registryVars, contextVars>>

\* ---------------------------------------------------------------- bounds
\* Number of ToolSandbox.execute invocations explored.
MaxCalls == 3
\* Largest maxConcurrentCalls a sandbox is constructed with.
MaxConc == 2
\* Cancel requests explored per execution (cancelAll can be repeated on an
\* execution it failed to clear).
MaxCancels == 1

\* ------------------------------------------------------ program constants
DefaultMaxOutputSize == 1048576
DefaultMaxExecutionTime == 30000
\* An option the caller did not supply (undefined).
NotGiven == -1

Slots == 1..MaxCalls

\* ----------------------------------------------------------------- values
\* Results a tool may resolve with: type, and length (of the string, of the
\* buffer, or of the JSON text of an object).  "cyclic" is an object that
\* JSON.stringify throws on, "function" a value it returns undefined for.
Values ==
    << [type |-> "number", len |-> 0],
       [type |-> "undefined", len |-> 0],
       [type |-> "string", len |-> 524288],
       [type |-> "string", len |-> 524289],
       [type |-> "null", len |-> 0],
       [type |-> "boolean", len |-> 0],
       [type |-> "string", len |-> 2],
       [type |-> "buffer", len |-> 4],
       [type |-> "buffer", len |-> 5],
       [type |-> "object", len |-> 2],
       [type |-> "object", len |-> 3],
       [type |-> "cyclic", len |-> 0],
       [type |-> "function", len |-> 0] >>

ValueIx == 1..Len(Values)

estimateSize(v) ==
    CASE v.type \in {"null", "undefined"} -> 0
      [] v.type = "string" -> v.len * 2
      [] v.type = "number" -> 8
      [] v.type = "boolean" -> 4
      [] v.type = "buffer" -> v.len
      [] v.type = "object" -> v.len * 2
      [] OTHER -> 0   \* JSON.stringify threw or returned undefined

\* --------------------------------------------------------------- options
\* The Partial<SandboxOptions> records passed to execute.
OptionSets ==
    << [pre |-> FALSE, post |-> FALSE, maxExecutionTime |-> NotGiven, maxOutputSize |-> NotGiven],
       [pre |-> TRUE,  post |-> TRUE,  maxExecutionTime |-> 100,      maxOutputSize |-> 4],
       [pre |-> FALSE, post |-> TRUE,  maxExecutionTime |-> 0,        maxOutputSize |-> 0] >>

OptIx == 1..Len(OptionSets)

\* options.maxOutputSize || 1024 * 1024
EffMaxOutputSize(o) ==
    IF o.maxOutputSize = NotGiven \/ o.maxOutputSize = 0
    THEN DefaultMaxOutputSize ELSE o.maxOutputSize

\* options.maxExecutionTime || this.config.maxExecutionTime
EffTimeout(o, cfg) ==
    IF o.maxExecutionTime = NotGiven \/ o.maxExecutionTime = 0
    THEN cfg.maxExecutionTime ELSE o.maxExecutionTime

\* ---------------------------------------------------------------- config
\* The ToolSecurityConfig fields the sandbox reads.
Configs ==
    [enabled : BOOLEAN, sandboxExecution : BOOLEAN,
     maxExecutionTime : {DefaultMaxExecutionTime},
     maxConcurrentCalls : 1..MaxConc]

\* Mutant of isEnabled: the sandboxExecution switch is not consulted.
isEnabledMasterSwitchOnly(cfg) == cfg.enabled

isEnabled(cfg) == cfg.enabled /\ cfg.sandboxExecution

\* -------------------------------------------------------------- outcomes
\* A settled promise: a value (arg: index into Values) or an error.
\*   tooMany   'Too many concurrent tool executions'
\*   timeout   'Tool execution timed out after <arg>ms'
\*   cancelled 'Tool execution was cancelled'
\*   size      'Tool output exceeded maximum size limit'
\*   tool      the error the tool threw or rejected with
\*   preHook   the error onBeforeExecution threw or rejected with
\*   postHook  the error onAfterExecution threw or rejected with
\*   handler   the error a notification handler threw
Pending == [kind |-> "none", arg |-> 0]
Val(i) == [kind |-> "value", arg |-> i]
Err(k, a) == [kind |-> k, arg |-> a]

\* resolve/reject of a promise: the first call settles it, later calls are no-ops.
SettleOnce(p, r) == IF p.kind = "none" THEN r ELSE p

\* The callers and the caller-supplied code of one run:
\*   calls     how many execute invocations the callers make
\*   opts      the option records they pass (indices into OptionSets)
\*   vals      the values the tools resolve with (indices into Values)
\*   faulty    the notification handlers given to the constructor may throw,
\*             and a tool may throw synchronously instead of returning a promise
\* Three kinds of run are explored: many plain calls with well-behaved
\* callbacks, fewer plain calls with faulty callbacks, and a single call with
\* every option record, every value and faulty callbacks.
Environments ==
    { [calls |-> MaxCalls, opts |-> {1}, vals |-> {1}, faulty |-> FALSE],
      [calls |-> MaxCalls - 1, opts |-> {1}, vals |-> {1}, faulty |-> TRUE],
      [calls |-> 1, opts |-> OptIx, vals |-> ValueIx, faulty |-> TRUE] }

\* What a notification handler may do when called: return (FALSE) or throw.
Throws == IF env.faulty THEN BOOLEAN ELSE {FALSE}

\* lastCancel when the last step was not a cancel or cancelAll call.  cancel
\* leaves [id, ret] with ret "true", "false" or "threw" (an exception left
\* it); cancelAll leaves ret "all".
NoCancel == [id |-> 0, ret |-> "none"]


\* One execute invocation.
\*   pc        where its async function stands
\*   id        number in its executionId (0: none registered)
\*   opt       index of its options in OptionSets
\*   tool      the promise of tool.execute: none | running | settled | threw
\*   timer     the setTimeout of executeWithTimeout is armed
\*   listener  abortHandler is registered on the signal
\*   aborted   controller.signal.aborted
\*   race      the promise executeWithTimeout returned
\*   pend      the result or error execute carries through the post hook
\*   out       what the promise returned by execute settled with
\*   first     which of settle / timer / cancel happened first
\*   ctx       the context tool.execute received: none | base | sandboxed
\*   n*        how often the tool, a hook or a notification was invoked
\*   lastPost  what the last onAfterExecution invocation received
NewCall ==
    [pc |-> "idle", id |-> 0, opt |-> 1, tool |-> "none",
     timer |-> FALSE, listener |-> FALSE, aborted |-> FALSE,
     race |-> Pending, pend |-> Pending, out |-> Pending, first |-> "none",
     ctx |-> "none", nTool |-> 0, nPre |-> 0, nPost |-> 0, lastPost |-> Pending,
     nConc |-> 0, nTimeout |-> 0, nSize |-> 0, nCancel |-> 0,
     sizeArg |-> 0, limitArg |-> 0, timeoutArg |-> 0, concArg |-> 0]

\* ------------------------------------------------- ToolGuard: its state
\* Tool names used with the guard and the registry.
ToolNames == {"read", "write"}

\* Two ToolGuard instances: g1 is constructed from a caller's partial config
\* and reconfigured later, g2 is constructed with no config at all.
GuardIds == {"g1", "g2"}

\* The string[] objects of a run: "default" is DEFAULT_CONFIG.deniedTools,
\* "list1" and "list2" are arrays the caller created.  A config holds
\* references to arrays, as the object spreads of the constructor,
\* updateConfig and getConfig copy references.
ArrayRefs == {"default", "list1", "list2"}
\* config.allowedTools when no allow list is configured.
NoList == "undefined"

\* Longest array explored.
MaxList == 2

\* The fields of DEFAULT_CONFIG that ToolGuard reads.
DefaultGuardConfig ==
    [enabled |-> TRUE, validateParams |-> TRUE,
     deniedTools |-> "default", allowedTools |-> NoList]

\* JSON values: a type and, for objects and arrays, the own enumerable keys
\* with their values in Object.keys order.
JNode(type, kv) == [t |-> type, kv |-> kv]
JNumber == JNode("number", <<>>)
JString == JNode("string", <<>>)
JNull == JNode("null", <<>>)
JObject(kv) == JNode("object", kv)
JArray(kv) == JNode("array", kv)
\* The data field of a result that carries no data.
NoData == JNode("undefined", <<>>)

\* gLast when the last step was not a ToolGuard call.  A call leaves
\*   op, g, name   the method, the instance and the toolName / argument
\*   arg           index of the text (parseToolArguments) or of the params
\*                 (validateParams) passed
\*   sch           what schema.parse did, when it was invoked
\*   ret           "true" | "false" (isToolAllowed), "success" | "failure"
\*                 (a ToolValidationResult), "void", or "threw"
\*   error, data, violations   the fields of the ToolValidationResult
\*                 (violations: how many strings)
\*   events        the notification handlers invoked, in order
\*   reason        the reason passed to onExecutionBlocked
\*   schemaCalls   how often schema.parse was invoked
NoSchema == [kind |-> "none", data |-> 1, issues |-> 0]

NoGuardCall ==
    [op |-> "none", g |-> "none", name |-> "none", arg |-> 0, sch |-> NoSchema,
     ret |-> "none",
     error |-> "", data |-> NoData, violations |-> 0,
     events |-> <<>>, reason |-> "", schemaCalls |-> 0]

GuardIdle ==
    /\ guards = [g \in GuardIds |-> DefaultGuardConfig]
    /\ arrays = [r \in ArrayRefs |-> <<>>]
    /\ held = {}
    /\ gLast = NoGuardCall

\* ---------------------------------------------- ToolRegistry: its state
\* register calls explored (each stores one definition and creates one
\* counter object, both identified by the call's serial number).
MaxRegs == 3
\* ToolRegistry.execute invocations explored.
MaxExecs == 2
\* Largest Date.now() difference observed by one execute.
MaxDuration == 1

ExecSlots == 1..MaxExecs

ZeroStats == [calls |-> 0, failures |-> 0, totalDuration |-> 0]

\* One ToolRegistry.execute invocation.
\*   pc      idle | running (awaiting tool.execute) | sandboxed (awaiting
\*           sandbox.execute) | done
\*   name    the name it was called with
\*   def     the definition it invokes (serial of its registration)
\*   obj     the counter object it holds in `stats`
\*   tool    how tool.execute ended: none | value | error
\*   out     what the promise returned by execute settled with
\*   dur     Date.now() - startTime as computed on success
NewExec ==
    [pc |-> "idle", name |-> "none", def |-> 0, obj |-> 0,
     tool |-> "none", out |-> Pending, dur |-> 0]

\* rLast when the last step was not a synchronous ToolRegistry call.
NoRegistryCall == [op |-> "none", name |-> "none", ret |-> "none"]

\* One executeBatch invocation.
\*   pc       idle | running (awaiting this.execute) | done
\*   calls    the names of its calls, in order
\*   slots    the execute invocation of each call started so far
\*   results  the results array
NoBatch == [pc |-> "idle", calls |-> <<>>, slots |-> <<>>, results |-> <<>>]

\* The invocations that go through a guard and a sandbox: execute of a tool
\* made by createSecureTool, and execute / executeFromJSON of a registry
\* with a guard or a sandbox attached.
\*   mode     which of the three the run explores
\*   guard    withSecurity(guard) was called on the registry
\*   sandbox  withSandbox(sandbox) was called on the registry
\*   schema   the tools declare a schema
\*   log      one record per invocation made (see NewInvocation)
NoSecure ==
    [mode |-> "none", guard |-> FALSE, sandbox |-> FALSE, schema |-> FALSE, log |-> <<>>]

\* cLast when the last step was not a ContextManager call.
NoContextCall == [op |-> "none", id |-> "none", content |-> "none", ret |-> "none"]

\* A ContextManager as constructed.
ContextIdle ==
    /\ items = <<>>
    /\ hashes = {}
    /\ nGen = 0
    /\ cLast = NoContextCall

RegistryIdle ==
    /\ zeroed = {}
    /\ batch = NoBatch
    /\ secure = NoSecure
    /\ tools = <<>>
    /\ usageStats = <<>>
    /\ stats = [i \in 1..MaxRegs |-> ZeroStats]
    /\ nRegs = 0
    /\ execs = [s \in ExecSlots |-> NewExec]
    /\ nExecs = 0
    /\ rLast = NoRegistryCall

Init ==
    /\ ContextIdle
    /\ config \in Configs
    /\ activeExecutions = {}
    /\ executionCount = 0
    /\ nCalls = 0
    /\ calls = [s \in Slots |-> NewCall]
    /\ lastCancel = NoCancel
    /\ env \in Environments
    /\ GuardIdle
    /\ RegistryIdle

\* The slot of the invocation that registered execution id i.
SlotOf(i) == CHOOSE s \in Slots : calls[s].id = i

MarkFirst(c, what) == IF c.first = "none" THEN what ELSE c.first

\* ------------------------------------------------------------- helpers
\* A gate that closes one execution late.
GateClosedAboveLimit(cfg, active) == Cardinality(active) > cfg.maxConcurrentCalls

\* this.activeExecutions.size >= this.config.maxConcurrentCalls
GateClosed(cfg, active) == Cardinality(active) >= cfg.maxConcurrentCalls

\* options.onAfterExecution?.(tool, result, error)
InvokePost(c, arg) ==
    IF OptionSets[c.opt].post
    THEN [c EXCEPT !.nPost = @ + 1, !.lastPost = arg]
    ELSE c

\* The catch block up to its await: the post hook is invoked with the error.
EnterCatch(c, e) == [InvokePost(c, e) EXCEPT !.pc = "postErr", !.pend = e]

\* controller.abort(): the first abort dispatches the event to the listener
\* registered at that time (abortHandler: clearTimeout, reject); a signal that
\* is already aborted dispatches nothing.
Abort(c) ==
    IF c.aborted THEN c
    ELSE IF c.listener
         THEN [c EXCEPT !.aborted = TRUE, !.listener = FALSE, !.timer = FALSE,
                        !.race = SettleOnce(@, Err("cancelled", 0))]
         ELSE [c EXCEPT !.aborted = TRUE]

\* The synchronous part of executeWithTimeout: arm the timer, register
\* abortHandler (a listener added to an aborted signal is never called), call
\* fn().  A tool that throws synchronously rejects the promise from inside its
\* executor, with the timer armed and the listener registered.
StartRace(c, syncThrow) ==
    [c EXCEPT !.pc = "race", !.timer = TRUE, !.listener = TRUE,
              !.nTool = @ + 1, !.ctx = "sandboxed",
              !.tool = IF syncThrow THEN "threw" ELSE "running",
              !.race = IF syncThrow THEN SettleOnce(@, Err("tool", 0)) ELSE @,
              !.first = IF syncThrow THEN MarkFirst(c, "settle") ELSE @]

\* Mutant of Release: the id is deleted on the success path only, not in a
\* finally block.
ReleaseOnSuccessOnly(active, c) ==
    IF c.pend.kind = "value" THEN active \ {c.id} ELSE active

\* The finally block: this.activeExecutions.delete(executionId).
Release(active, c) == active \ {c.id}

\* The async function returns or throws: finally runs and the promise settles.
Finish(s, c, r) ==
    /\ calls' = [calls EXCEPT ![s] = [c EXCEPT !.pc = "done", !.out = r]]
    /\ activeExecutions' = Release(activeExecutions, c)

\* ------------------------------------------------------------ execute
\* Sandboxing disabled: return tool.execute(params, baseContext).
ExecuteBypass(s, o) ==
    \E syncThrow \in Throws :
        /\ calls' = [calls EXCEPT ![s] =
               [@ EXCEPT !.pc = IF syncThrow THEN "done" ELSE "bypass",
                         !.opt = o, !.ctx = "base", !.nTool = 1,
                         !.tool = IF syncThrow THEN "threw" ELSE "running",
                         !.out = IF syncThrow THEN Err("tool", 0) ELSE Pending]]
        /\ UNCHANGED <<activeExecutions, executionCount>>

\* The concurrency gate is closed: notify and throw.
ExecuteRejected(s, o) ==
    \E threw \in Throws :
        /\ calls' = [calls EXCEPT ![s] =
               [@ EXCEPT !.pc = "done", !.opt = o, !.nConc = 1,
                         !.concArg = Cardinality(activeExecutions),
                         !.out = IF threw THEN Err("handler", 0)
                                 ELSE Err("tooMany", 0)]]
        /\ UNCHANGED <<activeExecutions, executionCount>>

\* Admitted: register a fresh id and controller, call the pre hook, await it.
ExecuteAdmitted(s, o) ==
    /\ executionCount' = executionCount + 1
    /\ activeExecutions' = activeExecutions \cup {executionCount + 1}
    /\ calls' = [calls EXCEPT ![s] =
           [@ EXCEPT !.pc = "pre", !.opt = o, !.id = executionCount + 1,
                     !.nPre = IF OptionSets[o].pre THEN 1 ELSE 0]]

\* execute(tool, params, context, options) up to its first await.
ExecuteCall(o) ==
    /\ nCalls < env.calls
    /\ o \in env.opts
    /\ nCalls' = nCalls + 1
    /\ IF ~isEnabled(config) THEN ExecuteBypass(nCalls + 1, o)
       ELSE IF GateClosed(config, activeExecutions) THEN ExecuteRejected(nCalls + 1, o)
       ELSE ExecuteAdmitted(nCalls + 1, o)
    /\ lastCancel' = NoCancel

\* A call of execute by the sandbox's user.
Execute(o) ==
    /\ ExecuteCall(o)
    /\ UNCHANGED <<guardVars, registryVars, env, contextVars, config>>

\* `await options.onBeforeExecution?.(tool, params)` resumes: the hook's
\* promise resolved (or there is no hook) and executeWithTimeout starts, or
\* the hook failed and the catch block runs.
PreDone(s) ==
    /\ calls[s].pc = "pre"
    /\ \E ok \in (IF OptionSets[calls[s].opt].pre THEN BOOLEAN ELSE {TRUE}),
          syncThrow \in Throws :
        calls' = [calls EXCEPT ![s] =
            IF ok THEN StartRace(@, syncThrow)
            ELSE EnterCatch(@, Err("preHook", 0))]
    /\ lastCancel' = NoCancel
    /\ UNCHANGED <<guardVars, registryVars, env, contextVars, config, activeExecutions, executionCount, nCalls>>

\* The tool's promise settles and its then/catch handler runs: clearTimeout,
\* removeEventListener, resolve or reject.  With sandboxing bypassed the
\* promise is the one execute returned.
ToolSettle(s, r) ==
    /\ calls[s].tool = "running"
    /\ calls' = [calls EXCEPT ![s] =
           IF @.pc = "bypass"
           THEN [@ EXCEPT !.tool = "settled", !.pc = "done", !.out = r]
           ELSE [@ EXCEPT !.tool = "settled",
                          !.timer = FALSE, !.listener = FALSE,
                          !.race = SettleOnce(@, r),
                          !.first = MarkFirst(calls[s], "settle")]]
    /\ lastCancel' = NoCancel
    /\ UNCHANGED <<guardVars, registryVars, env, contextVars, config, activeExecutions, executionCount, nCalls>>

\* The setTimeout callback: notify, then reject.  A handler that throws leaves
\* the callback before reject is reached.
TimerFire(s) ==
    /\ calls[s].timer
    /\ \E threw \in Throws :
        /\ calls' = [calls EXCEPT ![s] =
               [@ EXCEPT !.timer = FALSE, !.nTimeout = @ + 1,
                         !.timeoutArg = EffTimeout(OptionSets[calls[s].opt], config),
                         !.first = MarkFirst(calls[s], "timer"),
                         !.race = IF threw THEN @
                                  ELSE SettleOnce(@, Err("timeout",
                                         EffTimeout(OptionSets[calls[s].opt], config)))]]
    /\ lastCancel' = NoCancel
    /\ UNCHANGED <<guardVars, registryVars, env, contextVars, config, activeExecutions, executionCount, nCalls>>

\* A size check that also rejects a result of exactly the limit.
OversizedOrEqual(v, o) == estimateSize(v) >= EffMaxOutputSize(o)

\* The output-size check of execute: outputSize > maxOutputSize.
Oversized(v, o) == estimateSize(v) > EffMaxOutputSize(o)

\* `await this.executeWithTimeout(...)` resumes with the settled outcome.
\* A value is size-checked (an oversized one notifies and throws into the
\* catch block), then handed to the post hook; an error enters the catch block.
Resume(s) ==
    /\ calls[s].pc = "race"
    /\ calls[s].race.kind # "none"
    /\ LET c == calls[s]
           o == OptionSets[c.opt]
       IN IF c.race.kind = "value"
          THEN IF Oversized(Values[c.race.arg], o)
               THEN \E threw \in Throws :
                      calls' = [calls EXCEPT ![s] =
                          EnterCatch([c EXCEPT !.nSize = @ + 1,
                                               !.sizeArg = estimateSize(Values[c.race.arg]),
                                               !.limitArg = EffMaxOutputSize(o)],
                                     IF threw THEN Err("handler", 0)
                                     ELSE Err("size", 0))]
               ELSE calls' = [calls EXCEPT ![s] =
                        [InvokePost(c, c.race) EXCEPT !.pc = "post", !.pend = c.race]]
          ELSE calls' = [calls EXCEPT ![s] = EnterCatch(c, c.race)]
    /\ lastCancel' = NoCancel
    /\ UNCHANGED <<guardVars, registryVars, env, contextVars, config, activeExecutions, executionCount, nCalls>>

\* `await options.onAfterExecution?.(tool, result)` resumes: return the
\* result, or the hook failed and its error enters the catch block.
PostDone(s) ==
    /\ calls[s].pc = "post"
    /\ \E ok \in (IF OptionSets[calls[s].opt].post THEN BOOLEAN ELSE {TRUE}) :
        IF ok
        THEN Finish(s, calls[s], calls[s].pend)
        ELSE /\ calls' = [calls EXCEPT ![s] = EnterCatch(@, Err("postHook", 0))]
             /\ UNCHANGED activeExecutions
    /\ lastCancel' = NoCancel
    /\ UNCHANGED <<guardVars, registryVars, env, contextVars, config, executionCount, nCalls>>

\* `await options.onAfterExecution?.(tool, undefined, error)` in the catch
\* block resumes: rethrow the error, or the hook failed and its error leaves
\* the function instead.
PostErrDone(s) ==
    /\ calls[s].pc = "postErr"
    /\ \E ok \in (IF OptionSets[calls[s].opt].post THEN BOOLEAN ELSE {TRUE}) :
        Finish(s, calls[s], IF ok THEN calls[s].pend ELSE Err("postHook", 0))
    /\ lastCancel' = NoCancel
    /\ UNCHANGED <<guardVars, registryVars, env, contextVars, config, executionCount, nCalls>>

\* ------------------------------------------------------- cancel, cancelAll
\* cancel(executionId): abort, delete, notify, return true; false when the
\* id is not a key of the map.  A handler that throws leaves cancel by the
\* exception after the map was updated.
Cancel(i) ==
    /\ IF i \in activeExecutions
       THEN \E threw \in Throws :
              /\ calls[SlotOf(i)].nCancel < MaxCancels
              /\ calls' = [calls EXCEPT ![SlotOf(i)] =
                     [Abort(@) EXCEPT !.nCancel = @ + 1,
                                      !.first = MarkFirst(calls[SlotOf(i)], "cancel")]]
              /\ activeExecutions' = activeExecutions \ {i}
              /\ lastCancel' = [id |-> i, ret |-> IF threw THEN "threw" ELSE "true"]
             ELSE /\ lastCancel' = [id |-> i, ret |-> "false"]
            /\ UNCHANGED <<calls, activeExecutions>>
    /\ UNCHANGED <<guardVars, registryVars, env, contextVars, config, executionCount, nCalls>>

\* The ids the callers pass to cancel: every active id, and one id that is not
\* a key of the map (the last issued id that is no longer active, else an id
\* that was never issued).
CancelIds ==
    LET stale == {i \in 1..executionCount : i \notin activeExecutions}
    IN activeExecutions \cup
       {IF stale = {} THEN executionCount + 1
        ELSE CHOOSE i \in stale : \A j \in stale : j <= i}

\* Position of id i in the iteration order of the map (insertion order; ids
\* are inserted in increasing order).
Rank(i, active) == Cardinality({j \in active : j <= i})

\* cancelAll(): for each entry abort and notify, then clear the map.  The
\* handler called for the k-th entry may throw (k = 0: none throws): the loop
\* is left there and clear() is not reached.
CancelAll ==
    /\ \E k \in (IF env.faulty THEN 0..Cardinality(activeExecutions) ELSE {0}) :
        LET visited == IF k = 0 THEN activeExecutions
                       ELSE {i \in activeExecutions : Rank(i, activeExecutions) <= k}
        IN /\ \A i \in visited : calls[SlotOf(i)].nCancel < MaxCancels
           /\ calls' = [s \in Slots |->
                  IF calls[s].id \in visited
                  THEN [Abort(calls[s]) EXCEPT !.nCancel = @ + 1,
                                               !.first = MarkFirst(calls[s], "cancel")]
                  ELSE calls[s]]
           /\ activeExecutions' = IF k = 0 THEN {} ELSE activeExecutions
    /\ lastCancel' = [id |-> 0, ret |-> "all"]
    /\ UNCHANGED <<guardVars, registryVars, env, contextVars, config, executionCount, nCalls>>

\* --------------------------------------------------------- specification
Next ==
    \/ \E o \in OptIx : Execute(o)
    \/ \E s \in Slots : PreDone(s)
    \/ \E s \in Slots : \E r \in {Val(i) : i \in env.vals} \cup {Err("tool", 0)} : ToolSettle(s, r)
    \/ \E s \in Slots : TimerFire(s)
    \/ \E s \in Slots : Resume(s)
    \/ \E s \in Slots : PostDone(s)
    \/ \E s \in Slots : PostErrDone(s)
    \/ \E i \in CancelIds : Cancel(i)
    \/ CancelAll

Spec == Init /\ [][Next]_vars

\* The event loop runs every continuation that is ready: a hook's promise
\* settles and the await on it resumes (PreDone, PostDone, PostErrDone), the
\* await on the settled race resumes (Resume), and an armed timer fires
\* (TimerFire).  Nothing makes the tool's promise settle, and nobody has to
\* call cancel.
Fairness ==
    \A s \in Slots :
        /\ WF_vars(PreDone(s))
        /\ WF_vars(TimerFire(s))
        /\ WF_vars(Resume(s))
        /\ WF_vars(PostDone(s))
        /\ WF_vars(PostErrDone(s))

\* The runs explored for termination: two calls with every option record
\* (hooks that resolve or reject, both timeouts, a result within the size
\* limit of one record and above that of another) and handlers that return,
\* and two plain calls with handlers that may throw.
LiveEnvironments ==
    { [calls |-> 2, opts |-> OptIx, vals |-> {1}, faulty |-> FALSE],
      [calls |-> 2, opts |-> {1}, vals |-> {1}, faulty |-> TRUE] }

LiveInit ==
    /\ ContextIdle
    /\ config \in Configs
    /\ activeExecutions = {}
    /\ executionCount = 0
    /\ nCalls = 0
    /\ calls = [s \in Slots |-> NewCall]
    /\ lastCancel = NoCancel
    /\ env \in LiveEnvironments
    /\ GuardIdle
    /\ RegistryIdle

LiveSpec == LiveInit /\ [][Next]_vars /\ Fairness

\* ================================================================ ToolGuard
\* The sandbox with nothing executed: its state while the guard or the
\* registry is exercised on its own.
SandboxIdle ==
    /\ config = [enabled |-> TRUE, sandboxExecution |-> TRUE,
                 maxExecutionTime |-> DefaultMaxExecutionTime,
                 maxConcurrentCalls |-> 1]
    /\ activeExecutions = {}
    /\ executionCount = 0
    /\ nCalls = 0
    /\ calls = [s \in Slots |-> NewCall]
    /\ lastCancel = NoCancel

\* Array.prototype.includes, indexOf (0 for JavaScript's -1), push and
\* splice(index, 1) on a string[].
Includes(a, n) == \E i \in 1..Len(a) : a[i] = n
IndexOf(a, n) ==
    IF Includes(a, n) THEN CHOOSE i \in 1..Len(a) :
                               a[i] = n /\ \A j \in 1..(i - 1) : a[j] # n
    ELSE 0
Push(a, n) == Append(a, n)
Splice(a, i) == [j \in 1..(Len(a) - 1) |-> IF j < i THEN a[j] ELSE a[j + 1]]

\* isToolAllowed without its notification: the result and the reason given
\* to onExecutionBlocked.
isToolAllowed(cfg, arr, n) ==
    IF ~cfg.enabled THEN [ret |-> TRUE, reason |-> ""]
    ELSE IF Includes(arr[cfg.deniedTools], n)
         THEN [ret |-> FALSE, reason |-> "Tool is in deny list"]
    ELSE IF cfg.allowedTools # NoList /\ ~Includes(arr[cfg.allowedTools], n)
         THEN [ret |-> FALSE, reason |-> "Tool is not in allow list"]
    ELSE [ret |-> TRUE, reason |-> ""]

\* Depth limit of hasPrototypePollution.
ScanDepth == 10
DangerousKeys == {"__proto__", "constructor", "prototype"}

\* typeof v === 'object'
TypeofObject(v) == v.t \in {"object", "array", "null"}

RECURSIVE hasPrototypePollution(_, _)
hasPrototypePollution(obj, depth) ==
    IF depth > ScanDepth THEN FALSE
    ELSE IF ~TypeofObject(obj) \/ obj.t = "null" THEN FALSE
    ELSE \E i \in 1..Len(obj.kv) :
            \/ obj.kv[i][1] \in DangerousKeys
            \/ /\ \A j \in 1..(i - 1) : obj.kv[j][1] \notin DangerousKeys
               /\ TypeofObject(obj.kv[i][2])
               /\ hasPrototypePollution(obj.kv[i][2], depth + 1)

\* v nested k objects deep: {"n": {"n": ... v}}.
RECURSIVE Nest(_, _)
Nest(k, v) == IF k = 0 THEN v ELSE JObject(<< <<"n", Nest(k - 1, v)>> >>)

Polluted == JObject(<< <<"__proto__", JObject(<< <<"x", JNumber>> >>)>> >>)

\* The JSON texts passed to parseToolArguments, each with what JSON.parse
\* makes of it: a SyntaxError (valid = FALSE) or the parsed value.
Texts ==
    << [valid |-> FALSE, value |-> NoData],
       [valid |-> TRUE, value |-> JObject(<< <<"a", JNumber>> >>)],
       [valid |-> TRUE, value |-> Polluted],
       [valid |-> TRUE, value |->
           JObject(<< <<"constructor", JObject(<< <<"prototype", JObject(<<>>)>> >>)>> >>)],
       [valid |-> TRUE, value |->
           JObject(<< <<"a", JObject(<< <<"b",
               JObject(<< <<"__proto__", JObject(<<>>)>> >>)>> >>)>> >>)],
       [valid |-> TRUE, value |-> JString],
       [valid |-> TRUE, value |-> JNumber],
       [valid |-> TRUE, value |-> JNull],
       [valid |-> TRUE, value |-> JArray(<< <<"0", JNumber>> >>)],
       [valid |-> TRUE, value |-> JArray(<< <<"0", Polluted>> >>)],
       [valid |-> TRUE, value |-> Nest(ScanDepth, Polluted)],
       [valid |-> TRUE, value |-> Nest(ScanDepth + 1, Polluted)] >>
TextIx == 1..Len(Texts)

\* The params values passed to validateParams.
Params ==
    << JObject(<< <<"path", JString>> >>),
       JObject(<< <<"path", JNumber>>, <<"extra", JNumber>> >>),
       JString >>
ParamIx == 1..Len(Params)

\* Issues carried by one ZodError.
MaxIssues == 2

\* What schema.parse(params) may do: return a validated value (which need
\* not be the input), throw a ZodError with some issues, or throw another
\* error.
SchemaOutcomes ==
    [kind : {"ok"}, data : ParamIx, issues : {0}]
        \cup [kind : {"zodError"}, data : {1}, issues : 0..MaxIssues]
        \cup [kind : {"error"}, data : {1}, issues : {0}]

\* The partial configs passed to updateConfig: one field each.
PartialConfigs ==
    << [f |-> "deniedTools", v |-> "list1"],
       [f |-> "allowedTools", v |-> "list2"],
       [f |-> "allowedTools", v |-> NoList],
       [f |-> "validateParams", v |-> FALSE],
       [f |-> "validateParams", v |-> TRUE] >>
PartialIx == 1..Len(PartialConfigs)

\* The configs g1 is constructed with: { ...DEFAULT_CONFIG, ...config }.
ConstructorConfigs ==
    [enabled : {TRUE}, validateParams : BOOLEAN,
     deniedTools : {"default", "list1"}, allowedTools : {NoList, "list2"}]

\* The arrays the caller created before constructing g1.
InitLists == {<<>>, <<"read">>, <<"read", "read">>}

\* The callers of a guard run: the handlers given to the constructor may
\* throw or not, and the callers either work with the access lists
\* (isToolAllowed, denyTool, allowTool, getConfig, updateConfig of a list,
\* changes to the arrays they hold) or with tool arguments (validateParams,
\* parseToolArguments, updateConfig of validateParams); setEnabled is used
\* by both.
GuardEnvironments == [faulty : BOOLEAN, focus : {"access", "arguments"}]

GuardInit ==
    /\ ContextIdle
    /\ SandboxIdle
    /\ RegistryIdle
    /\ env \in GuardEnvironments
    /\ arrays \in {[r \in ArrayRefs |->
                       IF r = "list1" THEN l1 ELSE IF r = "list2" THEN l2 ELSE <<>>] :
                   l1 \in InitLists, l2 \in {<<>>, <<"read">>}}
    /\ guards \in {[g \in GuardIds |-> IF g = "g1" THEN c ELSE DefaultGuardConfig] :
                   c \in ConstructorConfigs}
    /\ held = {"list1", "list2"}
    /\ gLast = NoGuardCall

GuardCall(op, g, name) == [NoGuardCall EXCEPT !.op = op, !.g = g, !.name = name]

\* What one call isToolAllowed(n) on guard g may leave: its result and the
\* notifications it made; the handler it notifies may throw.
IsToolAllowedResults(g, n) ==
    LET v == isToolAllowed(guards[g], arrays, n) IN
    {[GuardCall("isToolAllowed", g, n) EXCEPT
         !.ret = IF v.ret THEN "true"
                 ELSE IF threw THEN "threw" ELSE "false",
         !.reason = v.reason,
         !.events = IF v.ret THEN <<>> ELSE <<"onExecutionBlocked">>] :
     threw \in {t \in Throws : t => ~v.ret}}

IsToolAllowed(g, n) ==
    /\ gLast' \in IsToolAllowedResults(g, n)
    /\ UNCHANGED <<guards, arrays, held, sandboxVars, registryVars, env, contextVars>>

\* What one call validateParams(n, value, schema) on guard g may leave, the
\* schema doing o.
ValidateParamsResults(g, n, value, o) ==
    LET call == GuardCall("validateParams", g, n)
        parsed == [call EXCEPT !.sch = o, !.schemaCalls = 1]
    IN
    IF ~guards[g].enabled \/ ~guards[g].validateParams
    THEN {[call EXCEPT !.ret = "success", !.data = value]}
    ELSE IF o.kind = "ok"
    THEN {[parsed EXCEPT !.ret = "success", !.data = Params[o.data]]}
    ELSE IF o.kind = "zodError"
    THEN {[parsed EXCEPT
              !.ret = IF threw THEN "threw" ELSE "failure",
              !.error = IF threw THEN "" ELSE "Parameter validation failed",
              !.violations = IF threw THEN 0 ELSE o.issues,
              !.events = <<"onValidationFailed">>] : threw \in Throws}
    ELSE {[parsed EXCEPT !.ret = "threw"]}

ValidateParams(g, p, o) ==
    /\ gLast' \in {[r EXCEPT !.arg = p] : r \in ValidateParamsResults(g, "read", Params[p], o)}
    /\ UNCHANGED <<guards, arrays, held, sandboxVars, registryVars, env, contextVars>>

\* The catch block of parseToolArguments, entered after the handlers in ev
\* were invoked.
ParseCatch(call, ev) ==
    {[call EXCEPT
         !.ret = IF threw THEN "threw" ELSE "failure",
         !.error = IF threw THEN "" ELSE "Invalid JSON in tool arguments",
         !.events = Append(ev, "onValidationFailed")] : threw \in Throws}

\* What one call parseToolArguments(n, text) on guard g may leave.
ParseToolArgumentsResults(g, n, t) ==
    LET call == [GuardCall("parseToolArguments", g, n) EXCEPT !.arg = t]
        parsed == Texts[t]
    IN
    IF ~guards[g].enabled
    THEN IF parsed.valid
         THEN {[call EXCEPT !.ret = "success", !.data = parsed.value]}
         ELSE {[call EXCEPT !.ret = "threw"]}
    ELSE IF ~parsed.valid THEN ParseCatch(call, <<>>)
    ELSE IF hasPrototypePollution(parsed.value, 0)
    THEN UNION {IF threw THEN ParseCatch(call, <<"onPrototypePollution">>)
                ELSE {[call EXCEPT
                         !.ret = "failure",
                         !.error = "Invalid tool arguments: potentially malicious content detected",
                         !.events = <<"onPrototypePollution">>]} : threw \in Throws}
    ELSE IF parsed.value.t # "object"
    THEN {[call EXCEPT !.ret = "failure",
                       !.error = "Tool arguments must be a JSON object"]}
    ELSE {[call EXCEPT !.ret = "success", !.data = parsed.value]}

ParseToolArguments(g, t) ==
    /\ gLast' \in ParseToolArgumentsResults(g, "read", t)
    /\ UNCHANGED <<guards, arrays, held, sandboxVars, registryVars, env, contextVars>>

\* getConfig returns { ...this.config }: a new object whose deniedTools and
\* allowedTools are the guard's own arrays.
GetConfig(g) ==
    /\ held' = held \cup ({guards[g].deniedTools, guards[g].allowedTools} \ {NoList})
    /\ gLast' = [GuardCall("getConfig", g, "none") EXCEPT !.ret = "void"]
    /\ UNCHANGED <<guards, arrays, sandboxVars, registryVars, env, contextVars>>

UpdateConfig(g, p) ==
    /\ guards' = [guards EXCEPT ![g] = [@ EXCEPT ![PartialConfigs[p].f] = PartialConfigs[p].v]]
    /\ gLast' = [GuardCall("updateConfig", g, "none") EXCEPT !.ret = "void"]
    /\ UNCHANGED <<arrays, held, sandboxVars, registryVars, env, contextVars>>

SetEnabled(g, b) ==
    /\ guards' = [guards EXCEPT ![g].enabled = b]
    /\ gLast' = [GuardCall("setEnabled", g, "none") EXCEPT !.ret = "void"]
    /\ UNCHANGED <<arrays, held, sandboxVars, registryVars, env, contextVars>>

DenyTool(g, n) ==
    LET r == guards[g].deniedTools IN
    /\ IF ~Includes(arrays[r], n)
       THEN /\ Len(arrays[r]) < MaxList
            /\ arrays' = [arrays EXCEPT ![r] = Push(@, n)]
       ELSE UNCHANGED arrays
    /\ gLast' = [GuardCall("denyTool", g, n) EXCEPT !.ret = "void"]
    /\ UNCHANGED <<guards, held, sandboxVars, registryVars, env, contextVars>>

AllowTool(g, n) ==
    LET r == guards[g].deniedTools
        index == IndexOf(arrays[r], n)
    IN
    /\ IF index # 0
       THEN arrays' = [arrays EXCEPT ![r] = Splice(@, index)]
       ELSE UNCHANGED arrays
    /\ gLast' = [GuardCall("allowTool", g, n) EXCEPT !.ret = "void"]
    /\ UNCHANGED <<guards, held, sandboxVars, registryVars, env, contextVars>>

\* The caller changes an array it holds: push(n) on one that serves as a
\* deny list, or shift().
CallerMutate(r, n, push) ==
    /\ r \in held
    /\ IF push THEN /\ r # "list2"
                    /\ Len(arrays[r]) < MaxList
                    /\ arrays' = [arrays EXCEPT ![r] = Push(@, n)]
       ELSE Len(arrays[r]) > 0 /\ arrays' = [arrays EXCEPT ![r] = Splice(@, 1)]
    /\ gLast' = [GuardCall("callerMutate", "none", r) EXCEPT !.ret = "void"]
    /\ UNCHANGED <<guards, held, sandboxVars, registryVars, env, contextVars>>

Access == env.focus = "access"
Arguments == env.focus = "arguments"

GuardNext ==
    \/ Access /\ \E g \in GuardIds, n \in ToolNames : IsToolAllowed(g, n)
    \/ Arguments /\ \E p \in ParamIx, o \in SchemaOutcomes : ValidateParams("g1", p, o)
    \/ Arguments /\ \E t \in TextIx : ParseToolArguments("g1", t)
    \/ Access /\ \E g \in GuardIds : GetConfig(g)
    \/ \E p \in PartialIx :
          /\ Access = (PartialConfigs[p].f # "validateParams")
          /\ UpdateConfig("g1", p)
    \/ \E b \in BOOLEAN : SetEnabled("g1", b)
    \/ Access /\ \E g \in GuardIds, n \in ToolNames : DenyTool(g, n)
    \/ Access /\ \E g \in GuardIds, n \in ToolNames : AllowTool(g, n)
    \/ Access /\ \E r \in ArrayRefs, n \in ToolNames, push \in BOOLEAN : CallerMutate(r, n, push)

GuardSpec == GuardInit /\ [][GuardNext]_vars

\* ============================================================= ToolRegistry
\* A Map as the sequence of its entries [name, reg] in insertion order:
\* has, get (0 for undefined), set (an existing key keeps its place) and
\* delete.
MapHas(m, n) == \E i \in 1..Len(m) : m[i].name = n
\* A lookup that falls back to the first entry.
MapGetOrFirst(m, n) ==
    IF MapHas(m, n) THEN m[CHOOSE i \in 1..Len(m) : m[i].name = n].reg
    ELSE IF Len(m) > 0 THEN m[1].reg ELSE 0

\* Map.get
MapGet(m, n) == IF MapHas(m, n) THEN m[CHOOSE i \in 1..Len(m) : m[i].name = n].reg ELSE 0
MapSet(m, n, v) ==
    IF MapHas(m, n)
    THEN [i \in 1..Len(m) |-> IF m[i].name = n THEN [name |-> n, reg |-> v] ELSE m[i]]
    ELSE Append(m, [name |-> n, reg |-> v])
MapDelete(m, n) == SelectSeq(m, LAMBDA e : e.name # n)

\* get(name): the stored definition, identified by the serial number of the
\* register call that stored it (0: undefined).
get(n) == MapGet(tools, n)
\* count()
count == Len(tools)

RegistryCall(op, n, ret) == [op |-> op, name |-> n, ret |-> ret]

\* A register that leaves the counters of a registered name as they are.
SetStatsKeepingCounters(n, reg) ==
    IF MapHas(usageStats, n) THEN usageStats ELSE MapSet(usageStats, n, reg)

\* this.usageStats.set(tool.name, { calls: 0, failures: 0, totalDuration: 0 })
SetStats(n, reg) == MapSet(usageStats, n, reg)

\* register(tool) with tool.name = n; valid: ToolSchema.parse accepts it.
Register(n, valid) ==
    /\ IF ~valid
       THEN /\ rLast' = RegistryCall("register", n, "threw")
            /\ UNCHANGED <<tools, usageStats, stats, nRegs>>
       ELSE /\ nRegs < MaxRegs
            /\ nRegs' = nRegs + 1
            /\ tools' = MapSet(tools, n, nRegs')
            /\ usageStats' = SetStats(n, nRegs')
            /\ stats' = [stats EXCEPT ![nRegs'] = ZeroStats]
            /\ rLast' = RegistryCall("register", n, "void")
    /\ UNCHANGED <<execs, nExecs, zeroed, batch, secure, sandboxVars, guardVars, env, contextVars>>

\* The registry after register(tool) stored the tool named n, r being the
\* registry before.
RegisterInto(r, n) ==
    [tools |-> MapSet(r.tools, n, r.nRegs + 1),
     usageStats |-> MapSet(r.usageStats, n, r.nRegs + 1),
     stats |-> [r.stats EXCEPT ![r.nRegs + 1] = ZeroStats],
     nRegs |-> r.nRegs + 1,
     threw |-> FALSE]

\* tools.forEach((tool) => this.register(tool)) from the i-th tool on: the
\* first tool that ToolSchema.parse rejects ends the loop by its exception.
RECURSIVE RegisterEach(_, _, _)
RegisterEach(r, list, i) ==
    IF i > Len(list) THEN r
    ELSE IF ~list[i].valid THEN [r EXCEPT !.threw = TRUE]
    ELSE RegisterEach(RegisterInto(r, list[i].name), list, i + 1)

\* registerAll(tools)
RegisterAll(list) ==
    LET r == RegisterEach([tools |-> tools, usageStats |-> usageStats, stats |-> stats,
                           nRegs |-> nRegs, threw |-> FALSE], list, 1)
    IN
    /\ r.nRegs <= MaxRegs
    /\ tools' = r.tools
    /\ usageStats' = r.usageStats
    /\ stats' = r.stats
    /\ nRegs' = r.nRegs
    /\ rLast' = RegistryCall("registerAll", "none", IF r.threw THEN "threw" ELSE "void")
    /\ UNCHANGED <<execs, nExecs, zeroed, batch, secure, sandboxVars, guardVars, env, contextVars>>

\* The arrays passed to registerAll: two tools each, the first a valid one.
ToolLists == {list \in [1..2 -> [name : ToolNames, valid : BOOLEAN]] : list[1].valid}

\* An unregister that deletes the counters only.
UnregisterKeepingTool(n) == tools

\* this.tools.delete(name)
UnregisterTool(n) == MapDelete(tools, n)

\* An unregister that leaves the counters in place.
DeleteStatsNever(n) == usageStats

\* this.usageStats.delete(name)
DeleteStats(n) == MapDelete(usageStats, n)

Unregister(n) ==
    /\ IF MapHas(tools, n)
       THEN /\ tools' = UnregisterTool(n)
            /\ usageStats' = DeleteStats(n)
            /\ rLast' = RegistryCall("unregister", n, "true")
       ELSE /\ rLast' = RegistryCall("unregister", n, "false")
            /\ UNCHANGED <<tools, usageStats>>
    /\ UNCHANGED <<stats, nRegs, execs, nExecs, zeroed, batch, secure, sandboxVars, guardVars, env, contextVars>>

Clear ==
    /\ tools' = <<>>
    /\ usageStats' = <<>>
    /\ rLast' = RegistryCall("clear", "none", "void")
    /\ UNCHANGED <<stats, nRegs, execs, nExecs, zeroed, batch, secure, sandboxVars, guardVars, env, contextVars>>

ResetStats ==
    /\ stats' = [i \in 1..MaxRegs |->
                   IF \E k \in 1..Len(usageStats) : usageStats[k].reg = i
                   THEN ZeroStats ELSE stats[i]]
    /\ zeroed' = zeroed \cup {i \in 1..MaxRegs :
                                /\ \E k \in 1..Len(usageStats) : usageStats[k].reg = i
                                /\ stats[i] # ZeroStats}
    /\ rLast' = RegistryCall("resetStats", "none", "void")
    /\ UNCHANGED <<tools, usageStats, nRegs, execs, nExecs, batch, secure, sandboxVars, guardVars, env, contextVars>>

\* A quotient of two numbers, kept as the pair the division is applied to.
Ratio(a, b) == [num |-> a, den |-> b]

\* The averageDuration of a tool that was never called.
Undefined == Ratio(0, 0)

\* getUsageStats(): one record per entry of this.usageStats, in Map order.
getUsageStats ==
    [i \in 1..Len(usageStats) |->
        LET rawStats == stats[usageStats[i].reg] IN
        [name |-> usageStats[i].name,
         calls |-> rawStats.calls,
         failures |-> rawStats.failures,
         successRate |-> IF rawStats.calls > 0
                         THEN Ratio(rawStats.calls - rawStats.failures, rawStats.calls)
                         ELSE Ratio(0, 1),
         averageDuration |-> IF rawStats.calls > 0
                             THEN Ratio(rawStats.totalDuration, rawStats.calls)
                             ELSE Undefined]]

\* The catch block of ToolRegistry.execute rethrows the error it caught.
Rethrow(e) == e

\* An execute that does not count the call.
CountCallNever(st, obj) == st

\* stats.calls++
CountCall(st, obj) == [st EXCEPT ![obj].calls = @ + 1]

\* stats.failures++
CountFailure(st, obj) == [st EXCEPT ![obj].failures = @ + 1]

\* execute(name, params) up to its await: look the tool up, count the call,
\* invoke tool.execute (which may throw instead of returning a promise).
\* The invocation takes the next of the first `limit` slots.
ExecuteBody(n, syncThrow, limit) ==
    LET s == nExecs + 1
        def == MapGet(tools, n)
        obj == MapGet(usageStats, n)
    IN
    /\ nExecs < limit
    /\ nExecs' = s
    /\ IF def = 0
       THEN /\ ~syncThrow
            /\ execs' = [execs EXCEPT ![s] =
                   [@ EXCEPT !.pc = "done", !.name = n, !.out = Err("notFound", 0)]]
            /\ UNCHANGED stats
       ELSE IF syncThrow
       THEN /\ execs' = [execs EXCEPT ![s] =
                   [@ EXCEPT !.pc = "done", !.name = n, !.def = def, !.obj = obj,
                             !.tool = "error", !.out = Rethrow(Err("tool", 0))]]
            /\ stats' = CountFailure(CountCall(stats, obj), obj)
       ELSE /\ execs' = [execs EXCEPT ![s] =
                   [@ EXCEPT !.pc = "running", !.name = n, !.def = def, !.obj = obj]]
            /\ stats' = CountCall(stats, obj)

\* A call of execute(name, params) by the registry's user.
RegistryExecute(n, syncThrow) ==
    /\ ExecuteBody(n, syncThrow, MaxExecs)
    /\ rLast' = NoRegistryCall
    /\ UNCHANGED <<tools, usageStats, nRegs, zeroed, batch, secure, sandboxVars, guardVars, env, contextVars>>

\* The promise of tool.execute settles and execute resumes: d is the time
\* that passed since startTime.
RegistrySettle(s, ok, d) ==
    /\ s \in DOMAIN execs
    /\ execs[s].pc = "running"
    /\ IF ok
       THEN /\ stats' = [stats EXCEPT ![execs[s].obj].totalDuration = @ + d]
            /\ execs' = [execs EXCEPT ![s] =
                   [@ EXCEPT !.pc = "done", !.tool = "value", !.dur = d,
                             !.out = [kind |-> "value", arg |-> execs[s].def]]]
       ELSE /\ stats' = CountFailure(stats, execs[s].obj)
            /\ execs' = [execs EXCEPT ![s] =
                   [@ EXCEPT !.pc = "done", !.tool = "error", !.dur = d,
                             !.out = Rethrow(Err("tool", 0))]]
    /\ rLast' = NoRegistryCall
    /\ UNCHANGED <<tools, usageStats, nRegs, nExecs, zeroed, batch, secure, sandboxVars, guardVars, env, contextVars>>

RegistryInit ==
    /\ ContextIdle
    /\ SandboxIdle
    /\ GuardIdle
    /\ RegistryIdle
    /\ env = [faulty |-> FALSE]

RegistryNext ==
    \/ \E n \in ToolNames, valid \in BOOLEAN : Register(n, valid)
    \/ \E n \in ToolNames : Unregister(n)
    \/ Clear
    \/ ResetStats
    \/ \E n \in ToolNames, syncThrow \in BOOLEAN : RegistryExecute(n, syncThrow)
    \/ \E s \in ExecSlots, ok \in BOOLEAN, d \in 0..MaxDuration : RegistrySettle(s, ok, d)

RegistrySpec == RegistryInit /\ [][RegistryNext]_vars

\* The registry with registerAll among its calls.
StatsNext ==
    \/ \E n \in ToolNames, valid \in BOOLEAN : Register(n, valid)
    \/ \E list \in ToolLists : RegisterAll(list)
    \/ \E n \in ToolNames : Unregister(n)
    \/ Clear
    \/ ResetStats
    \/ \E n \in ToolNames, syncThrow \in BOOLEAN : RegistryExecute(n, syncThrow)
    \/ \E s \in ExecSlots, ok \in BOOLEAN : RegistrySettle(s, ok, 0)

StatsSpec == RegistryInit /\ [][StatsNext]_vars

\* ------------------------------------------- ToolRegistry.executeBatch
\* Longest calls array explored.
MaxBatch == 3
\* execute calls the user makes next to the batch.
MaxDirect == 1

BatchExecSlots == 1..(MaxBatch + MaxDirect)

\* The calls arrays explored: every sequence of at most MaxBatch names.
BatchCalls == UNION {[1..k -> ToolNames] : k \in 0..MaxBatch}

\* String(error) for the errors execute rejects with.
String(e) ==
    IF e.kind = "notFound" THEN "Error: Tool not found" ELSE "Error: tool failed"

\* A loop that pushes nothing for a call that failed.
PushResultOfSuccessOnly(results, out) ==
    IF out.kind = "value" THEN Append(results, out) ELSE results

\* results.push(result) in the try, results.push({ error: String(error) })
\* in the catch.
PushResult(results, out) ==
    Append(results, IF out.kind = "value" THEN out ELSE [error |-> String(out)])

\* A loop that goes on without awaiting the call it started.
SettledOrNot(s) == TRUE

\* await this.execute(...): the loop goes on once the call has settled.
Awaited(s) == execs[s].pc = "done"

\* One iteration of the loop from its top: start the call at position i, or
\* return the results when the calls are exhausted.
BatchIterate(b, i) ==
    IF i > Len(b.calls)
    THEN /\ batch' = [b EXCEPT !.pc = "done"]
         /\ UNCHANGED <<execs, nExecs, stats>>
    ELSE /\ \E syncThrow \in BOOLEAN :
              ExecuteBody(b.calls[i], syncThrow, MaxBatch + MaxDirect)
         /\ batch' = [b EXCEPT !.pc = "running", !.slots = Append(@, nExecs + 1)]

\* executeBatch(calls) up to its first await.
ExecuteBatch(cs) ==
    /\ batch.pc = "idle"
    /\ BatchIterate([NoBatch EXCEPT !.calls = cs], 1)
    /\ rLast' = NoRegistryCall
    /\ UNCHANGED <<tools, usageStats, nRegs, zeroed, secure, sandboxVars, guardVars, env, contextVars>>

\* The awaited execute has settled: push its result and go round the loop.
BatchResume ==
    LET s == batch.slots[Len(batch.slots)] IN
    /\ batch.pc = "running"
    /\ Awaited(s)
    /\ BatchIterate([batch EXCEPT !.results = PushResult(@, execs[s].out)],
                    Len(batch.slots) + 1)
    /\ rLast' = NoRegistryCall
    /\ UNCHANGED <<tools, usageStats, nRegs, zeroed, secure, sandboxVars, guardVars, env, contextVars>>

\* An execute call made by the user while the batch runs.
DirectExecute(n, syncThrow) ==
    /\ batch.pc = "running"
    /\ nExecs - Len(batch.slots) < MaxDirect
    /\ ExecuteBody(n, syncThrow, MaxBatch + MaxDirect)
    /\ rLast' = NoRegistryCall
    /\ UNCHANGED <<tools, usageStats, nRegs, zeroed, batch, secure, sandboxVars, guardVars, env, contextVars>>

\* The registry is filled before the batch is started.
BatchSetup(n) ==
    /\ batch.pc = "idle"
    /\ ~MapHas(tools, n)
    /\ Register(n, TRUE)

\* A tool is unregistered while the batch runs.
BatchUnregister(n) ==
    /\ batch.pc = "running"
    /\ Unregister(n)

BatchInit ==
    /\ ContextIdle
    /\ SandboxIdle
    /\ GuardIdle
    /\ env = [faulty |-> FALSE]
    /\ zeroed = {}
    /\ batch = NoBatch
    /\ secure = NoSecure
    /\ tools = <<>>
    /\ usageStats = <<>>
    /\ stats = [i \in 1..MaxRegs |-> ZeroStats]
    /\ nRegs = 0
    /\ execs = [s \in BatchExecSlots |-> NewExec]
    /\ nExecs = 0
    /\ rLast = NoRegistryCall

BatchNext ==
    \/ \E n \in ToolNames : BatchSetup(n)
    \/ \E n \in ToolNames : BatchUnregister(n)
    \/ \E cs \in BatchCalls : ExecuteBatch(cs)
    \/ BatchResume
    \/ \E n \in ToolNames, syncThrow \in BOOLEAN : DirectExecute(n, syncThrow)
    \/ \E s \in BatchExecSlots, ok \in BOOLEAN : RegistrySettle(s, ok, 0)

BatchSpec == BatchInit /\ [][BatchNext]_vars

\* ------------------------------------------- ToolRegistry.getMostUsed
\* Largest limit explored.
MaxLimit == 4

\* The tool names of the runs that explore getMostUsed.
UsageNames == ToolNames \cup {"search"}

\* Array.prototype.sort with the comparator (a, b) => b[1].calls -
\* a[1].calls: a stable sort by descending calls, here by insertion.  An
\* entry goes behind every entry that has at least its calls.
RECURSIVE SortByCalls(_)
SortByCalls(entries) ==
    IF entries = <<>> THEN <<>>
    ELSE LET n == Len(entries)
             e == entries[n]
             sorted == SortByCalls(SubSeq(entries, 1, n - 1))
             k == Cardinality({i \in 1..(n - 1) : stats[sorted[i].reg].calls >= stats[e.reg].calls})
         IN SubSeq(sorted, 1, k) \o <<e>> \o SubSeq(sorted, k + 1, n - 1)

\* A slice that takes one entry too many.
SliceInclusive(a, limit) == SubSeq(a, 1, IF limit + 1 < Len(a) THEN limit + 1 ELSE Len(a))

\* Array.prototype.slice(0, limit): a negative limit counts from the end.
Slice(a, limit) ==
    IF limit >= 0
    THEN SubSeq(a, 1, IF limit < Len(a) THEN limit ELSE Len(a))
    ELSE SubSeq(a, 1, IF Len(a) + limit > 0 THEN Len(a) + limit ELSE 0)

\* getMostUsed(limit): the definitions, each with the name it was found by.
getMostUsed(limit) ==
    LET sorted == Slice(SortByCalls(usageStats), limit)
        found == [i \in 1..Len(sorted) |->
                    [name |-> sorted[i].name, def |-> MapGet(tools, sorted[i].name)]]
    IN SelectSeq(found, LAMBDA t : t.def # 0)

UsageNext ==
    \/ \E n \in UsageNames : Register(n, TRUE)
    \/ \E n \in UsageNames : Unregister(n)
    \/ \E n \in UsageNames : RegistryExecute(n, TRUE)

UsageSpec == RegistryInit /\ [][UsageNext]_vars

\* =================================================== guard, then sandbox
\* Invocations explored per run.
MaxSecure == 2

\* One invocation that goes through the guard and the sandbox.
\*   op          secureTool | execute | executeFromJSON
\*   name        the tool's name
\*   text        index of the JSON text passed (executeFromJSON), else 0
\*   params      the params passed (execute), or parsed from the text
\*   parse, allowed, validation
\*               what parseToolArguments, isToolAllowed and validateParams
\*               left, when they were called
\*   passed      the params handed on to sandbox.execute or to the tool
\*   slot        the ToolSandbox.execute invocation made (0: none)
\*   exec        the ToolRegistry.execute invocation made (0: none)
\*   out         the error it rejected with before any tool was called
NewInvocation ==
    [op |-> "none", name |-> "none", text |-> 0, params |-> NoData,
     parse |-> NoGuardCall, allowed |-> NoGuardCall, validation |-> NoGuardCall,
     passed |-> NoData, slot |-> 0, exec |-> 0, out |-> Pending]

\* The guard of the secure tool and of the registry.
TheGuard == "g1"

\* The error thrown for a failed validation result v.
\*   notAllowed  'Tool "<name>" is not allowed'
\*   validation  the message built from v.error
\*   schema      the error schema.parse threw, not a ZodError
ValidationError(v) ==
    IF v.ret = "failure" THEN Err("validation", 0)
    ELSE IF v.sch.kind = "error" THEN Err("schema", 0) ELSE Err("handler", 0)

\* The stages before the tool, given what isToolAllowed (a) and, if it is
\* reached, validateParams (v) leave: inv is the invocation as it stands
\* when the stages are through, enter says whether the tool stage is
\* reached, last is the guard call made last.
SecureStages(inv, a, v) ==
    IF a.ret # "true"
    THEN [inv |-> [inv EXCEPT !.allowed = a,
                     !.out = IF a.ret = "threw" THEN Err("handler", 0)
                             ELSE Err("notAllowed", 0)],
          enter |-> FALSE, last |-> a]
    ELSE IF ~secure.schema
    THEN [inv |-> [inv EXCEPT !.allowed = a, !.passed = inv.params],
          enter |-> TRUE, last |-> a]
    ELSE IF v.ret # "success"
    THEN [inv |-> [inv EXCEPT !.allowed = a, !.validation = v,
                     !.out = ValidationError(v)],
          enter |-> FALSE, last |-> v]
    ELSE [inv |-> [inv EXCEPT !.allowed = a, !.validation = v, !.passed = v.data],
          enter |-> TRUE, last |-> v]

\* execute(params, context) of the tool createSecureTool returned, up to its
\* first await.
SecureToolExecute(n, p, o) ==
    /\ secure.mode = "tool"
    /\ Len(secure.log) < MaxSecure
    /\ \E a \in IsToolAllowedResults(TheGuard, n),
          v \in ValidateParamsResults(TheGuard, n, Params[p], o) :
         LET inv == [NewInvocation EXCEPT !.op = "secureTool", !.name = n,
                                          !.params = Params[p]]
             st == SecureStages(inv, a, v)
         IN
         /\ gLast' = st.last
         /\ IF st.enter
            THEN /\ ExecuteCall(1)
                 /\ secure' = [secure EXCEPT !.log =
                                  Append(@, [st.inv EXCEPT !.slot = nCalls + 1])]
            ELSE /\ secure' = [secure EXCEPT !.log = Append(@, st.inv)]
                 /\ UNCHANGED <<sandboxVars>>
    /\ UNCHANGED <<guards, arrays, held, config, env, contextVars,
                   tools, usageStats, stats, nRegs, execs, nExecs, rLast, zeroed, batch>>

\* ------------------------- ToolRegistry with a guard and a sandbox attached
\* The record of an invocation is appended to the log.
Logged(inv) == secure' = [secure EXCEPT !.log = Append(@, inv)]

\* The guard stages of a registry: those of SecureStages when a guard is
\* attached, none otherwise.
RegistryStages(inv, a, v) ==
    IF secure.guard THEN SecureStages(inv, a, v)
    ELSE [inv |-> [inv EXCEPT !.passed = inv.params], enter |-> TRUE, last |-> NoGuardCall]

\* execute(name, params) of a registry with a guard or a sandbox attached, up
\* to its first await, for the invocation inv (its name and params set) and
\* a schema that does o: look the tool up, count the call, ask the guard,
\* then hand the tool to the sandbox or call it.  An error thrown on the way
\* counts as a failure and is rethrown.
SecureExecuteBody(inv, o) ==
    LET n == inv.name
        s == nExecs + 1
        def == MapGet(tools, n)
        obj == MapGet(usageStats, n)
    IN
    /\ nExecs < MaxSecure
    /\ nExecs' = s
    /\ rLast' = NoRegistryCall
    /\ IF def = 0
       THEN /\ execs' = [execs EXCEPT ![s] =
                   [@ EXCEPT !.pc = "done", !.name = n, !.out = Err("notFound", 0)]]
            /\ Logged([inv EXCEPT !.exec = s, !.out = Err("notFound", 0)])
            /\ gLast' = NoGuardCall
            /\ UNCHANGED <<stats, sandboxVars>>
       ELSE \E a \in IsToolAllowedResults(TheGuard, n),
               v \in ValidateParamsResults(TheGuard, n, inv.params, o) :
            LET st == RegistryStages(inv, a, v)
                ex == [execs[s] EXCEPT !.name = n, !.def = def, !.obj = obj]
            IN
            /\ gLast' = st.last
            /\ IF ~st.enter
               THEN /\ execs' = [execs EXCEPT ![s] =
                           [ex EXCEPT !.pc = "done", !.out = Rethrow(st.inv.out)]]
                    /\ stats' = CountFailure(CountCall(stats, obj), obj)
                    /\ Logged([st.inv EXCEPT !.exec = s])
                    /\ UNCHANGED <<sandboxVars>>
               ELSE IF secure.sandbox
               THEN /\ ExecuteCall(1)
                    /\ execs' = [execs EXCEPT ![s] = [ex EXCEPT !.pc = "sandboxed"]]
                    /\ stats' = CountCall(stats, obj)
                    /\ Logged([st.inv EXCEPT !.exec = s, !.slot = nCalls + 1])
               ELSE /\ execs' = [execs EXCEPT ![s] = [ex EXCEPT !.pc = "running"]]
                    /\ stats' = CountCall(stats, obj)
                    /\ Logged([st.inv EXCEPT !.exec = s])
                    /\ UNCHANGED <<sandboxVars>>

\* A call of execute(name, params) on the registry.
SecureExecute(n, p, o) ==
    /\ secure.mode = "registry"
    /\ Len(secure.log) < MaxSecure
    /\ SecureExecuteBody([NewInvocation EXCEPT !.op = "execute", !.name = n,
                                               !.params = Params[p]], o)
    /\ UNCHANGED <<guards, arrays, held, config, env, contextVars,
                   tools, usageStats, nRegs, zeroed, batch>>

\* The sandbox.execute invocation that the registry's invocation s awaits.
SandboxSlotOf(s) ==
    LET i == CHOOSE k \in 1..Len(secure.log) : secure.log[k].exec = s
    IN secure.log[i].slot

\* The promise of sandbox.execute settles and the registry's execute
\* resumes: it returns the value, or counts the failure and rethrows.
SandboxedSettle(s) ==
    /\ execs[s].pc = "sandboxed"
    /\ calls[SandboxSlotOf(s)].pc = "done"
    /\ LET r == calls[SandboxSlotOf(s)].out IN
       IF r.kind = "value"
       THEN /\ execs' = [execs EXCEPT ![s] =
                   [@ EXCEPT !.pc = "done", !.tool = "value", !.out = r]]
            /\ UNCHANGED stats
       ELSE /\ execs' = [execs EXCEPT ![s] =
                   [@ EXCEPT !.pc = "done", !.tool = "error", !.out = Rethrow(r)]]
            /\ stats' = CountFailure(stats, execs[s].obj)
    /\ rLast' = NoRegistryCall
    /\ UNCHANGED <<tools, usageStats, nRegs, nExecs, zeroed, batch, secure,
                   sandboxVars, guardVars, env, contextVars>>

\* The error executeFromJSON throws for the parse result pr that is not a
\* success.
\*   parse   the message of pr.error
\*   syntax  the SyntaxError of JSON.parse
ParseError(pr) ==
    IF pr.ret = "failure" THEN Err("parse", 0)
    ELSE IF guards[TheGuard].enabled THEN Err("handler", 0) ELSE Err("syntax", 0)

\* executeFromJSON(name, jsonText) with the text of index t: parse the text
\* with the guard (with JSON.parse when there is none), then execute.
SecureExecuteFromJSON(n, t, o) ==
    LET inv == [NewInvocation EXCEPT !.op = "executeFromJSON", !.name = n, !.text = t]
        rejected(i) ==
            /\ Logged(i)
            /\ rLast' = NoRegistryCall
            /\ UNCHANGED <<execs, nExecs, stats, sandboxVars>>
    IN
    /\ secure.mode = "json"
    /\ Len(secure.log) < MaxSecure
    /\ IF secure.guard
       THEN \E pr \in ParseToolArgumentsResults(TheGuard, n, t) :
               IF pr.ret = "success"
               THEN SecureExecuteBody([inv EXCEPT !.parse = pr, !.params = pr.data], o)
               ELSE /\ rejected([inv EXCEPT !.parse = pr, !.out = ParseError(pr)])
                    /\ gLast' = pr
       ELSE IF Texts[t].valid
       THEN SecureExecuteBody([inv EXCEPT !.params = Texts[t].value], o)
       ELSE /\ rejected([inv EXCEPT !.out = Err("syntax", 0)])
            /\ gLast' = NoGuardCall
    /\ UNCHANGED <<guards, arrays, held, config, env, contextVars,
                   tools, usageStats, nRegs, zeroed, batch>>

\* The tool is registered with the registry.
SecureSetup(n) ==
    /\ secure.mode \in {"registry", "json"}
    /\ ~MapHas(tools, n)
    /\ Register(n, TRUE)

\* The tool of the runs, the params it is called with and what its schema
\* may do with them: accept them as they are, replace them, reject them
\* with one issue, or throw another error.
SecureTool == "read"
SecureParams == {1, 2}
\* The texts passed to executeFromJSON: not JSON, an object, a polluted
\* object, a string.
SecureTexts == {1, 2, 3, 6}
SecureSchemaOutcomes ==
    {o \in SchemaOutcomes :
        \/ o.kind = "ok" /\ o.data \in SecureParams
        \/ o.kind = "zodError" /\ o.issues = 1
        \/ o.kind = "error"}

\* The runs explored: handlers that return or may throw, two sandboxed
\* calls at most.
SecureEnvironments ==
    {[calls |-> MaxSecure, opts |-> {1}, vals |-> {1}, faulty |-> f] : f \in BOOLEAN}

SecureInit ==
    /\ ContextIdle
    /\ env \in SecureEnvironments
    /\ config \in {c \in Configs : c.enabled /\ c.maxConcurrentCalls = 1}
    /\ activeExecutions = {}
    /\ executionCount = 0
    /\ nCalls = 0
    /\ calls = [s \in Slots |-> NewCall]
    /\ lastCancel = NoCancel
    /\ arrays \in {[r \in ArrayRefs |->
                       IF r = "list1" THEN l1 ELSE IF r = "list2" THEN l2 ELSE <<>>] :
                   l1 \in {<<>>, <<SecureTool>>}, l2 \in {<<"write">>}}
    /\ guards \in {[g \in GuardIds |-> IF g = TheGuard THEN c ELSE DefaultGuardConfig] :
                   c \in {d \in [enabled : BOOLEAN, validateParams : BOOLEAN,
                                  deniedTools : {"list1"}, allowedTools : {NoList, "list2"}] :
                          d.enabled \/ d.validateParams}}
    /\ held = {}
    /\ gLast = NoGuardCall
    /\ zeroed = {}
    /\ batch = NoBatch
    /\ tools = <<>>
    /\ usageStats = <<>>
    /\ stats = [i \in 1..MaxRegs |-> ZeroStats]
    /\ nRegs = 0
    /\ execs = [s \in ExecSlots |-> NewExec]
    /\ nExecs = 0
    /\ rLast = NoRegistryCall
    /\ secure \in {[NoSecure EXCEPT !.mode = "tool", !.schema = sc] : sc \in BOOLEAN}
                   \cup {[NoSecure EXCEPT !.mode = "registry", !.guard = g,
                                          !.sandbox = sb, !.schema = sc] :
                         g \in BOOLEAN, sb \in BOOLEAN, sc \in BOOLEAN}
                   \cup {[NoSecure EXCEPT !.mode = "json", !.guard = g, !.schema = sc] :
                         g \in BOOLEAN, sc \in BOOLEAN}

SecureNext ==
    \/ \E p \in SecureParams, o \in SecureSchemaOutcomes : SecureToolExecute(SecureTool, p, o)
    \/ SecureSetup(SecureTool)
    \/ \E p \in SecureParams, o \in SecureSchemaOutcomes : SecureExecute(SecureTool, p, o)
    \/ \E t \in SecureTexts, o \in SecureSchemaOutcomes :
          SecureExecuteFromJSON(SecureTool, t, o)
    \/ \E s \in ExecSlots : SandboxedSettle(s)
    \/ \E s \in ExecSlots, ok \in BOOLEAN : RegistrySettle(s, ok, 0)
    \/ \E s \in Slots : PreDone(s)
    \/ \E s \in Slots : \E r \in {Val(i) : i \in env.vals} \cup {Err("tool", 0)} : ToolSettle(s, r)
    \/ \E s \in Slots : TimerFire(s)
    \/ \E s \in Slots : Resume(s)
    \/ \E s \in Slots : PostDone(s)
    \/ \E s \in Slots : PostErrDone(s)

SecureSpec == SecureInit /\ [][SecureNext]_vars

\* ======================================================== ContextManager
\* Ids made by generateId explored per run.
MaxGen == 2

\* item.id of an item tracked without an id.
NoId == "undefined"
\* The ids callers pass: none, the empty string, two ids of their own.
CallerIds == {NoId, "", "a", "b"}
\* The ids generateId returns, in the order it returns them: each call
\* returns an id that no item has and no caller passes.
GeneratedIds == <<"ctx-1", "ctx-2", "ctx-3">>
\* The contents and the positions callers pass.
Contents == {"x", "y"}
Positions == {0, 1}

\* hashContent(content): the first 32 hex digits of the SHA-256 digest,
\* distinct for the contents explored.
hashContent(content) == [sha256 |-> content]

\* generateId()
generateId == GeneratedIds[nGen + 1]

\* !item.id is false
HasId(id) == id # NoId /\ id # ""

ContextCall(op, id, content, ret) ==
    [op |-> op, id |-> id, content |-> content, ret |-> ret]

\* this.hashes.add(hash)
AddHash(set, hash) == set \cup {hash}

\* if (!item.id && this.hashes.has(hash))
Skips(id, hash) == ~HasId(id) /\ hash \in hashes

\* track(item, position) with item.id = id and item.content = content.
Track(id, content, position) ==
    LET hash == hashContent(content) IN
    /\ IF Skips(id, hash)
       THEN /\ cLast' = ContextCall("track", id, content, "skipped")
            /\ UNCHANGED <<items, hashes, nGen>>
       ELSE LET newId == IF HasId(id) THEN id ELSE generateId
                trackedItem == [id |-> newId, content |-> content, hash |-> hash,
                                position |-> position]
            IN
            /\ HasId(id) \/ nGen < MaxGen
            /\ nGen' = IF HasId(id) THEN nGen ELSE nGen + 1
            /\ items' = MapSet(items, newId, trackedItem)
            /\ hashes' = AddHash(hashes, hash)
            /\ cLast' = ContextCall("track", id, content, newId)
    /\ UNCHANGED <<sandboxVars, guardVars, registryVars, env>>

\* hasContext(id)
hasContext(id) == MapHas(items, id)

\* hasContentHash(content)
hasContentHash(content) == hashContent(content) \in hashes

\* remove(id)
Remove(id) ==
    /\ IF MapHas(items, id)
       THEN /\ items' = MapDelete(items, id)
            /\ hashes' = hashes \ {MapGet(items, id).hash}
            /\ cLast' = ContextCall("remove", id, "none", "true")
       ELSE /\ cLast' = ContextCall("remove", id, "none", "false")
            /\ UNCHANGED <<items, hashes>>
    /\ UNCHANGED <<nGen, sandboxVars, guardVars, registryVars, env>>

\* clear() of the ContextManager
ClearContext ==
    /\ items' = <<>>
    /\ hashes' = {}
    /\ cLast' = ContextCall("clear", "none", "none", "void")
    /\ UNCHANGED <<nGen, sandboxVars, guardVars, registryVars, env>>

ContextInit ==
    /\ SandboxIdle
    /\ GuardIdle
    /\ RegistryIdle
    /\ ContextIdle
    /\ env = [faulty |-> FALSE]

ContextNext ==
    \/ \E id \in CallerIds, content \in Contents, position \in Positions :
          Track(id, content, position)
    \/ \E id \in (CallerIds \ {NoId}) \cup {GeneratedIds[i] : i \in 1..MaxGen} : Remove(id)
    \/ ClearContext

ContextSpec == ContextInit /\ [][ContextNext]_vars

\* ================================================================ claims
\* Positions of an admitted invocation whose execute promise is not settled.
InFlight == {"pre", "race", "post", "postErr"}

\* C3.  Once an admitted execute call has settled, whatever its outcome, its
\* execution id is not in the active set; every id in the active set belongs
\* to an admitted call that has not settled, so with no sandboxed call in
\* flight getActiveCount() is 0 and getActiveExecutionIds() is empty.
C3_NoLeakedExecutionId ==
    /\ \A s \in Slots :
         (calls[s].pc = "done" /\ calls[s].id # 0) => calls[s].id \notin activeExecutions
    /\ \A i \in activeExecutions :
         \E s \in Slots : calls[s].id = i /\ calls[s].pc \in InFlight
    /\ (\A s \in Slots : calls[s].pc \notin InFlight) => activeExecutions = {}

\* C3 witness: an admitted call whose post hook failed while it handled an
\* error has settled, and the active set is empty.
C3_Witness ==
    \E s \in Slots :
        /\ calls[s].pc = "done" /\ calls[s].id # 0
        /\ calls[s].out.kind = "postHook" /\ calls[s].pend.kind # "value"
        /\ activeExecutions = {}

\* C10.  With enabled or sandboxExecution false, execute calls tool.execute
\* exactly once with the caller's context (no sandbox sub-record) and settles
\* with that call's outcome, oversized or not: no id is registered, no timer
\* or abort listener is set up, no hook is called and no notification fires.
C10_BypassWhenDisabled ==
    (~config.enabled \/ ~config.sandboxExecution) =>
        /\ activeExecutions = {} /\ executionCount = 0
        /\ \A s \in Slots : calls[s].pc # "idle" =>
             /\ calls[s].ctx = "base" /\ calls[s].nTool = 1 /\ calls[s].id = 0
             /\ ~calls[s].timer /\ ~calls[s].listener
             /\ calls[s].nPre = 0 /\ calls[s].nPost = 0
             /\ calls[s].nConc = 0 /\ calls[s].nTimeout = 0
             /\ calls[s].nSize = 0 /\ calls[s].nCancel = 0
             /\ calls[s].pc \in {"bypass", "done"}
             /\ (calls[s].pc = "done") = (calls[s].tool \in {"settled", "threw"})
             /\ calls[s].pc = "done" => calls[s].out.kind \in {"value", "tool"}
             /\ calls[s].tool = "threw" => calls[s].out.kind = "tool"

\* C10 witness: with sandboxing off, a result larger than the output limit
\* has been returned to the caller.
C10_Witness ==
    /\ ~config.sandboxExecution
    /\ \E s \in Slots :
        /\ calls[s].pc = "done" /\ calls[s].out.kind = "value"
        /\ Oversized(Values[calls[s].out.arg], OptionSets[calls[s].opt])

\* ------------------------------------------------------------------ C1
\* The step of an execute call that finds the sandbox enabled and
\* maxConcurrentCalls executions active.
AtClosedGate ==
    /\ nCalls' = nCalls + 1
    /\ config.enabled /\ config.sandboxExecution
    /\ Cardinality(activeExecutions) >= config.maxConcurrentCalls

\* What C1 says of that step: the call rejects with 'Too many concurrent tool
\* executions', one concurrency-exceeded notification fires, the tool is not
\* invoked, no id is registered and the earlier executions are untouched.
GateRejection ==
    /\ calls'[nCalls'].pc = "done"
    /\ calls'[nCalls'].out = Err("tooMany", 0)
    /\ calls'[nCalls'].nConc = 1
    /\ calls'[nCalls'].concArg = Cardinality(activeExecutions)
    /\ calls'[nCalls'].nTool = 0 /\ calls'[nCalls'].id = 0
    /\ activeExecutions' = activeExecutions
    /\ executionCount' = executionCount
    /\ \A s \in Slots \ {nCalls'} : calls'[s] = calls[s]

\* C1.  With sandboxing enabled and maxConcurrentCalls executions active, a
\* further execute call rejects with 'Too many concurrent tool executions',
\* fires exactly one concurrency-exceeded notification, does not invoke the
\* tool, registers no id and leaves the earlier executions unaffected.  (That
\* the earlier executions eventually settle is C39's statement.)
C1_GateRejects == [][AtClosedGate => GateRejection]_vars

\* C1 for notification handlers that return: the gate behaves as stated.
C1_GateRejectsWhenHandlersReturn ==
    [][(AtClosedGate /\ ~env.faulty) => GateRejection]_vars

\* ------------------------------------------------------------------ C2
\* C2.  When the timer fires before the wrapped call settles and before any
\* cancel, the timeout notification has fired exactly once with the effective
\* timeout, the call never returns a value, and once settled it has rejected
\* with 'Tool execution timed out after <timeout>ms'.
C2_TimeoutWins ==
    \A s \in Slots : calls[s].first = "timer" =>
        /\ calls[s].nTimeout = 1
        /\ calls[s].timeoutArg = EffTimeout(OptionSets[calls[s].opt], config)
        /\ calls[s].out.kind # "value"
        /\ calls[s].pc = "done" =>
             calls[s].out = Err("timeout", EffTimeout(OptionSets[calls[s].opt], config))

\* ------------------------------------------------------------------ C4
\* C4.  The first of {wrapped call settles, timer fires, cancel observed}
\* fixes the outcome and the losers have no effect: once the wrapped call has
\* settled or the cancel was observed no timeout notification fires, once the
\* wrapped call has settled or the timer has fired no cancelled notification
\* fires, and a settled race or a settled call is never changed.
C4_LosersHaveNoEffect ==
    [][\A s \in Slots :
         /\ (calls[s].first = "settle" \/ calls[s].race.kind = "cancelled")
                => calls'[s].nTimeout = calls[s].nTimeout
         /\ calls[s].first \in {"settle", "timer"}
                => calls'[s].nCancel = calls[s].nCancel
         /\ calls[s].race.kind # "none" => calls'[s].race = calls[s].race
         /\ calls[s].pc = "done" => calls'[s].out = calls[s].out]_vars

\* ------------------------------------------------------------------ C5
\* C5.  An invocation that was cancelled (cancel or cancelAll hit its id)
\* before its wrapped call settled and before its timer fired, the time of
\* the pre hook included, never returns the tool's result and, once settled,
\* has rejected with 'Tool execution was cancelled'.
C5_CancelRejects ==
    \A s \in Slots : calls[s].first = "cancel" =>
        /\ calls[s].out.kind # "value"
        /\ calls[s].pc = "done" => calls[s].out = Err("cancelled", 0)

\* The case of C5 with every callback well-behaved: a call cancelled right
\* after execute returned its promise has resolved with the tool's result.
C5_ResultReturnedAfterCancel ==
    \E s \in Slots :
        /\ ~env.faulty /\ calls[s].first = "cancel" /\ calls[s].nCancel = 1
        /\ calls[s].pc = "done" /\ calls[s].out.kind = "value"

\* ------------------------------------------------------------------ C6
\* What C6 says of a step in which cancel(i) returned or threw: it returns
\* true exactly when i was active; then exactly i is removed and the
\* cancelled notification fires once for it; on false nothing changes.
CancelContract ==
    LET i == lastCancel'.id IN
    /\ lastCancel'.ret \in {"true", "false"}
    /\ (lastCancel'.ret = "true") = (i \in activeExecutions)
    /\ lastCancel'.ret = "true" =>
         /\ activeExecutions' = activeExecutions \ {i}
         /\ calls'[SlotOf(i)].nCancel = calls[SlotOf(i)].nCancel + 1
         /\ calls'[SlotOf(i)].aborted
         /\ \A s \in Slots \ {SlotOf(i)} : calls'[s] = calls[s]
    /\ lastCancel'.ret = "false" =>
         UNCHANGED <<calls, activeExecutions, executionCount, config>>

AfterCancel == lastCancel'.ret \in {"true", "false", "threw"}

\* C6.  cancel(executionId) returns true exactly when the id is active at the
\* call; returning true it removes exactly that id and fires the cancelled
\* notification exactly once with it, leaving every other execution
\* untouched; returning false it changes nothing and fires nothing.
C6_CancelContract == [][AfterCancel => CancelContract]_vars

\* C6 for notification handlers that return.
C6_CancelContractWhenHandlersReturn ==
    [][(AfterCancel /\ ~env.faulty) => CancelContract]_vars

\* ------------------------------------------------------------------ C7
\* What C7 says of a cancelAll step: every active execution is signalled and
\* notified exactly once, the map is empty on return, an execution waiting
\* on its wrapped call is rejected with 'Tool execution was cancelled', and
\* the gate is open for a new execute.
CancelAllContract ==
    /\ activeExecutions' = {}
    /\ ~GateClosed(config, activeExecutions')
    /\ \A s \in Slots :
         IF calls[s].id \in activeExecutions
         THEN /\ calls'[s].aborted
              /\ calls'[s].nCancel = calls[s].nCancel + 1
              /\ (calls[s].pc = "race" /\ calls[s].race.kind = "none")
                    => calls'[s].race = Err("cancelled", 0)
         ELSE calls'[s] = calls[s]

AfterCancelAll == lastCancel'.ret = "all"

\* C7.  cancelAll() signals every execution active at the call, fires one
\* cancelled notification per such execution and leaves the active set empty
\* on return; the executions that were waiting on their wrapped call reject
\* with 'Tool execution was cancelled' and a new execute is admitted.
C7_CancelAllContract == [][AfterCancelAll => CancelAllContract]_vars

\* C7 for notification handlers that return.
C7_CancelAllContractWhenHandlersReturn ==
    [][(AfterCancelAll /\ ~env.faulty) => CancelAllContract]_vars

\* ------------------------------------------------------------------ C8
\* C8.  When the wrapped call resolved with a value whose estimated size is
\* greater than the effective maxOutputSize, the call never returns it, and
\* once settled it has rejected with 'Tool output exceeded maximum size
\* limit' after exactly one output-size-exceeded notification carrying the
\* size and the limit.
C8_OversizedRejected ==
    \A s \in Slots :
        (/\ calls[s].ctx = "sandboxed"
         /\ calls[s].race.kind = "value"
         /\ estimateSize(Values[calls[s].race.arg])
                > EffMaxOutputSize(OptionSets[calls[s].opt]))
        => /\ calls[s].out.kind # "value"
           /\ calls[s].pc = "done" =>
                /\ calls[s].out = Err("size", 0)
                /\ calls[s].nSize = 1
                /\ calls[s].sizeArg = estimateSize(Values[calls[s].race.arg])
                /\ calls[s].limitArg = EffMaxOutputSize(OptionSets[calls[s].opt])

\* ------------------------------------------------------------------ C9
\* C9.  For an admitted call with an onAfterExecution hook the hook is never
\* invoked twice, and once the call has settled it was invoked exactly once.
C9_PostHookOnce ==
    \A s \in Slots : (OptionSets[calls[s].opt].post /\ calls[s].id # 0) =>
        /\ calls[s].nPost <= 1
        /\ calls[s].pc = "done" => calls[s].nPost = 1

\* ----------------------------------------------------------------- C11
\* C11.  When the wrapped tool call rejects with error E before any timeout
\* or cancel, ToolSandbox.execute rejects with that same E, and
\* ToolRegistry.execute rejects with that same E after counting the failure;
\* neither replaces, wraps or masks E, also when lifecycle hooks are supplied.
C11_ToolErrorUnchanged ==
    /\ \A s \in Slots :
         (/\ calls[s].first = "settle"
          /\ calls[s].race = Err("tool", 0)
          /\ calls[s].pc = "done")
         => calls[s].out = Err("tool", 0)
    /\ \A s \in ExecSlots :
         (execs[s].pc = "done" /\ execs[s].tool = "error")
         => execs[s].out = Err("tool", 0)

\* The registry's half of C11: in the step in which the tool of a registry
\* call fails, the call rejects with the tool's error and the failure is
\* counted on the counter object the call holds.
C11_RegistryRethrows ==
    [][\A s \in ExecSlots :
         (execs[s].tool = "none" /\ execs'[s].tool = "error")
         => /\ execs'[s].out = Err("tool", 0)
            /\ stats'[execs'[s].obj].failures = stats[execs'[s].obj].failures + 1]_vars

C11_RegistryRethrows_Witness ==
    \E s \in ExecSlots :
        /\ execs[s].pc = "done" /\ execs[s].tool = "error"
        /\ stats[execs[s].obj].failures = 1

\* ----------------------------------------------------------------- C12
\* The step in which the timer callback of invocation s runs.
TimerRan(s) == calls'[s].nTimeout = calls[s].nTimeout + 1
\* The step in which the output-size check of invocation s fails.
SizeCheckFailed(s) == calls'[s].nSize = calls[s].nSize + 1

\* What C12 says of the sandbox's notifications: whatever the handler does,
\* an execute at a closed gate rejects with the concurrency error, a timer
\* that fires on an open race settles it with the timeout error, a failed
\* size check leaves the size error, cancel of an active id returns true,
\* and cancelAll aborts and clears every active execution.
OutcomeKept ==
    /\ AtClosedGate => calls'[nCalls'].out = Err("tooMany", 0)
    /\ \A s \in Slots :
         /\ (TimerRan(s) /\ calls[s].race = Pending) => calls'[s].race.kind = "timeout"
         /\ SizeCheckFailed(s) => calls'[s].pend = Err("size", 0)
    /\ (AfterCancel /\ lastCancel'.id \in activeExecutions) => lastCancel'.ret = "true"
    /\ AfterCancelAll =>
         /\ activeExecutions' = {}
         /\ \A s \in Slots : calls[s].id \in activeExecutions => calls'[s].aborted

\* C12.  A notification callback that throws does not change the outcome of
\* the operation that fired it: the caller still receives the same result or
\* error, a timed-out execution still settles with the timeout error, and
\* cancelAll still cancels and clears every active execution.
C12_ThrowingHandlerKeepsOutcome == [][OutcomeKept]_vars

\* With handlers that return, every operation has the outcome C12 names.
C12_OutcomeWhenHandlersReturn == [][~env.faulty => OutcomeKept]_vars

\* The guard's half of C12: isToolAllowed, validateParams on a schema
\* rejection and parseToolArguments on an enabled guard return a value and
\* a detected pollution is reported as such, whatever the handlers do.
C12_GuardHandlers ==
    /\ (gLast.events # <<>>) => gLast.ret # "threw"
    /\ (gLast.events # <<>> /\ gLast.events[1] = "onPrototypePollution")
         => gLast.error = "Invalid tool arguments: potentially malicious content detected"

C12_GuardWhenHandlersReturn == ~env.faulty => C12_GuardHandlers

\* ----------------------------------------------------------------- C13
Range(a) == {a[i] : i \in 1..Len(a)}
CountOf(a, n) == Cardinality({i \in 1..Len(a) : a[i] = n})

Denied(g, n) == n \in Range(arrays[guards[g].deniedTools])
OnAllowList(g, n) ==
    guards[g].allowedTools = NoList \/ n \in Range(arrays[guards[g].allowedTools])

\* What C13 says of the isToolAllowed call that just returned.
IsToolAllowedContract ==
    LET g == gLast.g
        n == gLast.name
        expected == ~guards[g].enabled \/ (~Denied(g, n) /\ OnAllowList(g, n))
    IN
    /\ gLast.ret = IF expected THEN "true" ELSE "false"
    /\ (guards[g].enabled /\ Denied(g, n)) => gLast.reason = "Tool is in deny list"
    /\ gLast.events = IF expected THEN <<>> ELSE <<"onExecutionBlocked">>

\* C13.  isToolAllowed(name) returns true when the guard is disabled;
\* otherwise true exactly when name is not in deniedTools and no allow list
\* is configured or name is in it.  A name in deniedTools gives false with
\* the deny-list reason even if it is also allowed, and every false result
\* comes with exactly one execution-blocked notification.
C13_IsToolAllowed == gLast.op = "isToolAllowed" => IsToolAllowedContract

\* C13 for notification handlers that return.
C13_IsToolAllowedWhenHandlersReturn ==
    (gLast.op = "isToolAllowed" /\ ~env.faulty) => IsToolAllowedContract

C13_Witness ==
    /\ gLast.op = "isToolAllowed" /\ ~env.faulty /\ gLast.ret = "false"
    /\ Denied(gLast.g, gLast.name)
    /\ guards[gLast.g].allowedTools # NoList
    /\ gLast.name \in Range(arrays[guards[gLast.g].allowedTools])

\* ----------------------------------------------------------------- C14
\* The deny list of guard g before and after a step.
DenyList(g) == arrays[guards[g].deniedTools]
DenyListAfter(g) == arrays'[guards'[g].deniedTools]

OthersKept(g, n) ==
    \A m \in ToolNames \ {n} : (m \in Range(DenyListAfter(g))) = (m \in Range(DenyList(g)))

\* What C14 says of a denyTool or allowTool step.
DenyAllowContract ==
    LET g == gLast'.g
        n == gLast'.name
    IN
    /\ gLast'.op = "denyTool" =>
         /\ CountOf(DenyListAfter(g), n) = 1
         /\ guards'[g].enabled => ~isToolAllowed(guards'[g], arrays', n).ret
         /\ n \in Range(DenyList(g)) => arrays' = arrays
         /\ OthersKept(g, n)
    /\ gLast'.op = "allowTool" =>
         /\ CountOf(DenyListAfter(g), n) = 0
         /\ guards'[g].allowedTools = NoList => isToolAllowed(guards'[g], arrays', n).ret
         /\ n \notin Range(DenyList(g)) => arrays' = arrays
         /\ OthersKept(g, n)

\* C14.  After denyTool(n) the deny list contains n exactly once and
\* isToolAllowed(n) is false on an enabled guard; after allowTool(n) n is
\* absent from the deny list and, with no allow list, isToolAllowed(n) is
\* true; denyTool of a denied name and allowTool of a name not denied change
\* nothing; neither changes the membership of another name.
C14_DenyAllowIdempotent == [][DenyAllowContract]_vars

\* C14 on a deny list that holds no name twice.
C14_WhenListHasNoDuplicates ==
    [][(gLast'.op \in {"denyTool", "allowTool"}
          /\ \A m \in ToolNames : CountOf(DenyList(gLast'.g), m) <= 1)
       => DenyAllowContract]_vars

\* ----------------------------------------------------------------- C15
\* The arrays the caller created.
CallerLists == {"list1", "list2"}

\* C15.  Guard configuration is exchanged by value: a change the caller
\* makes to an array it passed to the constructor or to updateConfig, or
\* received from getConfig, never changes what isToolAllowed returns, and
\* denyTool / allowTool never modify an array the caller created.
C15_ConfigByValue ==
    [][/\ gLast'.op = "callerMutate" =>
            \A g \in GuardIds, n \in ToolNames :
                isToolAllowed(guards'[g], arrays', n) = isToolAllowed(guards[g], arrays, n)
       /\ gLast'.op \in {"denyTool", "allowTool"} =>
            \A r \in CallerLists : arrays'[r] = arrays[r]]_vars

\* ----------------------------------------------------------------- C16
\* v has a key named __proto__, constructor or prototype, at any depth.
RECURSIVE HasDangerousKey(_)
HasDangerousKey(v) ==
    /\ v.t \in {"object", "array"}
    /\ \E i \in 1..Len(v.kv) :
          v.kv[i][1] \in DangerousKeys \/ HasDangerousKey(v.kv[i][2])

\* The parseToolArguments call that just returned, and its text.
Parsed == gLast.op = "parseToolArguments"
ParsedText == Texts[gLast.arg]

\* C16.  With the guard enabled, JSON text whose value contains a key named
\* __proto__, constructor or prototype, at the top level or nested, yields
\* success = false with the malicious-content error, no data and exactly one
\* prototype-pollution notification; the text of a plain object without such
\* keys yields success = true with the parsed object.
C16_PollutionRejected ==
    (Parsed /\ guards[gLast.g].enabled /\ ParsedText.valid) =>
        /\ HasDangerousKey(ParsedText.value) =>
             /\ gLast.ret = "failure"
             /\ gLast.error = "Invalid tool arguments: potentially malicious content detected"
             /\ gLast.data = NoData
             /\ gLast.events = <<"onPrototypePollution">>
        /\ (ParsedText.value.t = "object" /\ ~HasDangerousKey(ParsedText.value)) =>
             /\ gLast.ret = "success"
             /\ gLast.data = ParsedText.value
             /\ gLast.events = <<>>

\* C16 for handlers that return and keys within the depth the scan reaches.
C16_WhenHandlersReturnAndKeyInReach ==
    (Parsed /\ ~env.faulty /\ gLast.arg # Len(Texts)) => C16_PollutionRejected

\* ----------------------------------------------------------------- C17
\* C17.  parseToolArguments never throws: text that is not JSON yields
\* success = false with 'Invalid JSON in tool arguments' and one
\* validation-failed notification; JSON of a string, number, boolean, null
\* or array yields success = false with 'Tool arguments must be a JSON
\* object'; on a disabled guard the text is parsed with no safety check and
\* returned as success.
C17_ParseNeverThrows ==
    Parsed =>
        /\ gLast.ret # "threw"
        /\ (guards[gLast.g].enabled /\ ~ParsedText.valid) =>
             /\ gLast.ret = "failure"
             /\ gLast.error = "Invalid JSON in tool arguments"
             /\ gLast.events = <<"onValidationFailed">>
        /\ (guards[gLast.g].enabled /\ ParsedText.valid
              /\ ParsedText.value.t \in {"string", "number", "boolean", "null", "array"}) =>
             /\ gLast.ret = "failure"
             /\ gLast.error = "Tool arguments must be a JSON object"
        /\ (~guards[gLast.g].enabled /\ ParsedText.valid) =>
             /\ gLast.ret = "success"
             /\ gLast.data = ParsedText.value
             /\ gLast.events = <<>>

\* The case of C17 with the guard disabled: the call threw.
C17_DisabledGuardThrew ==
    Parsed /\ ~env.faulty /\ ~guards[gLast.g].enabled /\ gLast.ret = "threw"

\* ----------------------------------------------------------------- C18
Validated == gLast.op = "validateParams"

\* What C18 says of the validateParams call that just returned.
ValidateContract ==
    /\ (~guards[gLast.g].enabled \/ ~guards[gLast.g].validateParams) =>
         /\ gLast.ret = "success" /\ gLast.data = Params[gLast.arg]
         /\ gLast.schemaCalls = 0 /\ gLast.events = <<>>
    /\ (guards[gLast.g].enabled /\ guards[gLast.g].validateParams) =>
         /\ gLast.schemaCalls = 1
         /\ gLast.sch.kind = "ok" =>
              /\ gLast.ret = "success" /\ gLast.data = Params[gLast.sch.data]
              /\ gLast.events = <<>>
         /\ gLast.sch.kind = "zodError" =>
              /\ gLast.ret = "failure"
              /\ gLast.error = "Parameter validation failed"
              /\ gLast.violations = gLast.sch.issues
              /\ gLast.data = NoData
              /\ gLast.events = <<"onValidationFailed">>

\* C18.  validateParams returns success with the input unchanged, without
\* consulting the schema, when the guard is disabled or validateParams is
\* off; otherwise success with the schema's validated value when the schema
\* accepts, and success = false with 'Parameter validation failed', one
\* violation per issue and exactly one validation-failed notification when
\* it rejects; a schema rejection is never thrown to the caller.
C18_ValidateParams == Validated => ValidateContract

\* C18 for notification handlers that return.
C18_ValidateParamsWhenHandlersReturn == (Validated /\ ~env.faulty) => ValidateContract

\* ----------------------------------------------------------------- C19
Registered == {n \in ToolNames : get(n) # 0}
RegisteredAfter == {n \in ToolNames : MapGet(tools', n) # 0}

\* C19.  After any sequence of register, unregister and clear, get(name)
\* returns the most recently registered definition for that name (undefined
\* if it was unregistered or cleared since), count() is the number of
\* distinct registered names, and registering a registered name does not
\* increase count().
C19_MostRecentDefinition ==
    [][/\ Len(tools') = Cardinality(RegisteredAfter)
       /\ \A n \in ToolNames :
            LET after == MapGet(tools', n) IN
            IF rLast' = RegistryCall("register", n, "void")
            THEN /\ after = nRegs' /\ nRegs' = nRegs + 1
                 /\ Len(tools') = IF n \in Registered THEN count ELSE count + 1
            ELSE IF rLast' \in {RegistryCall("unregister", n, "true"),
                                RegistryCall("unregister", n, "false"),
                                RegistryCall("clear", "none", "void")}
            THEN after = 0
            ELSE after = get(n)]_vars

C19_Witness ==
    /\ rLast.op = "register" /\ rLast.ret = "void"
    /\ nRegs = MaxRegs /\ count = 1
    /\ get(rLast.name) = MaxRegs

\* ----------------------------------------------------------------- C20
\* The counters getUsageStats reads for name n (ZeroStats if it has none).
CountersOf(m, st, n) == IF MapHas(m, n) THEN st[MapGet(m, n)] ELSE ZeroStats

\* C20.  Registering a tool under a name that is already registered succeeds
\* without error and sets that tool's calls, failures and totalDuration to
\* zero; the counters of every other tool are unchanged.
C20_ReRegisterResetsCounters ==
    [][\A n \in ToolNames :
         (rLast'.op = "register" /\ rLast'.name = n /\ n \in Registered
            /\ nRegs' = nRegs + 1) =>
            /\ rLast'.ret = "void"
            /\ MapHas(usageStats', n)
            /\ CountersOf(usageStats', stats', n) = ZeroStats
            /\ \A m \in ToolNames \ {n} :
                 /\ MapHas(usageStats', m) = MapHas(usageStats, m)
                 /\ CountersOf(usageStats', stats', m) = CountersOf(usageStats, stats, m)]_vars

\* A tool re-registered after one of its calls was counted.
C20_Witness ==
    /\ rLast.op = "register" /\ rLast.ret = "void"
    /\ CountersOf(usageStats, stats, rLast.name) = ZeroStats
    /\ \E s \in ExecSlots :
         /\ execs[s].name = rLast.name
         /\ execs[s].obj # 0
         /\ execs[s].obj # MapGet(usageStats, rLast.name)
         /\ stats[execs[s].obj].calls >= 1

\* ----------------------------------------------------------------- C21
\* C21.  In every reachable state of a ToolRegistry, also with in-flight
\* execute calls interleaved with resetStats, re-registration, unregister
\* and further execute calls, every record returned by getUsageStats has
\* failures <= calls and a successRate within [0, 1] that equals
\* (calls - failures) / calls when calls > 0 and 0 when calls = 0.
C21_StatsInvariant ==
    \A i \in 1..Len(getUsageStats) :
        LET r == getUsageStats[i] IN
        /\ r.failures <= r.calls
        /\ 0 <= r.successRate.num /\ r.successRate.num <= r.successRate.den
        /\ r.calls > 0 => r.successRate = Ratio(r.calls - r.failures, r.calls)
        /\ r.calls = 0 => r.successRate = Ratio(0, 1)

\* The case of C21 that is about the rate: a record whose successRate is
\* negative.
C21_NegativeRate ==
    \E i \in 1..Len(getUsageStats) : getUsageStats[i].successRate.num < 0

\* ----------------------------------------------------------------- C22
\* The execute invocations that counted on counter object o: all of them,
\* those that have settled, and those that rejected.
Started(o) == {s \in ExecSlots : execs[s].obj = o}
Settled(o) == {s \in Started(o) : execs[s].pc = "done"}
Rejected(o) == {s \in Started(o) : execs[s].tool = "error"}

\* C22.  With no resetStats, re-registration or unregister in between,
\* after k execute calls on a registered tool have settled, f of them
\* rejected, getUsageStats reports calls = k, failures = f and successRate
\* = (k - f) / k; every execute on a registered tool counts exactly one
\* call, and only a rejected one counts a failure.
C22_CallsAndFailuresCounted ==
    \A i \in 1..Len(getUsageStats) :
        LET o == usageStats[i].reg
            r == getUsageStats[i]
            k == Cardinality(Settled(o))
            f == Cardinality(Rejected(o))
        IN
        o \notin zeroed =>
            /\ r.calls = Cardinality(Started(o))
            /\ r.failures = f
            /\ (Started(o) = Settled(o) /\ k > 0) =>
                  /\ r.calls = k
                  /\ r.successRate = Ratio(k - f, k)

\* Two calls on one registration have settled, one of them rejected.
C22_Witness ==
    \E i \in 1..Len(getUsageStats) :
        LET o == usageStats[i].reg IN
        /\ o \notin zeroed
        /\ Cardinality(Settled(o)) = 2 /\ Cardinality(Rejected(o)) = 1
        /\ getUsageStats[i].successRate = Ratio(1, 2)

\* ----------------------------------------------------------------- C23
\* The sum of the wall-clock durations of the execute invocations in S.
RECURSIVE SumOfDurations(_)
SumOfDurations(S) ==
    IF S = {} THEN 0
    ELSE LET s == CHOOSE x \in S : TRUE IN execs[s].dur + SumOfDurations(S \ {s})

\* C23.  Every execute on a registered tool, whether it resolves or rejects,
\* adds its wall-clock duration to the tool's totalDuration, so that
\* averageDuration is the sum of the durations of all successful and failed
\* calls divided by calls (undefined when calls = 0).
C23_DurationOfEveryCall ==
    \A i \in 1..Len(getUsageStats) :
        LET o == usageStats[i].reg
            r == getUsageStats[i]
        IN
        (o \notin zeroed /\ Started(o) = Settled(o)) =>
            /\ stats[o].totalDuration = SumOfDurations(Started(o))
            /\ r.averageDuration = IF r.calls = 0 THEN Undefined
                                   ELSE Ratio(SumOfDurations(Started(o)), r.calls)

\* C23 for the calls that resolved.
C23_DurationOfSuccessfulCalls ==
    \A i \in 1..Len(getUsageStats) :
        LET o == usageStats[i].reg IN
        (o \notin zeroed /\ Started(o) = Settled(o)) =>
            stats[o].totalDuration = SumOfDurations(Started(o) \ Rejected(o))

\* ----------------------------------------------------------------- C24
\* C24.  execute on a name that is not registered rejects with 'Tool
\* "<name>" not found', invokes no tool, and leaves every usage counter and
\* the set of registered tools unchanged.
C24_NotFound ==
    [][\A n \in ToolNames :
         (nExecs' = nExecs + 1 /\ execs'[nExecs'].name = n /\ ~MapHas(tools, n)) =>
            /\ execs'[nExecs'].out = Err("notFound", 0)
            /\ execs'[nExecs'].pc = "done"
            /\ execs'[nExecs'].def = 0 /\ execs'[nExecs'].tool = "none"
            /\ stats' = stats /\ usageStats' = usageStats /\ tools' = tools]_vars

\* An execute of a name that is not registered, in a registry that holds
\* another tool with counted calls.
C24_Witness ==
    \E s \in ExecSlots :
        /\ execs[s].out = Err("notFound", 0)
        /\ ~MapHas(tools, execs[s].name)
        /\ Len(tools) > 0
        /\ \E i \in 1..Len(getUsageStats) : getUsageStats[i].calls > 0

\* ----------------------------------------------------------------- C25
\* Slot i of the results holds the outcome of the batch's call i: the value
\* it resolved with, or an error marker when it rejected.
SlotHoldsOutcome(i) ==
    LET e == execs[batch.slots[i]]
        r == batch.results[i]
    IN
    /\ e.name = batch.calls[i]
    /\ e.pc = "done"
    /\ IF e.out.kind = "value"
       THEN "error" \notin DOMAIN r /\ r = e.out
       ELSE DOMAIN r = {"error"} /\ r.error = String(e.out)

\* C25.  executeBatch resolves with a result sequence as long as the call
\* sequence; slot i holds the value of call i when it succeeded and an
\* error marker when it failed (an unregistered name included), and a
\* failure in slot i neither prevents nor alters a later call.
C25_BatchIsolation ==
    batch.pc = "done" =>
        /\ Len(batch.results) = Len(batch.calls)
        /\ Len(batch.slots) = Len(batch.calls)
        /\ \A i \in 1..Len(batch.calls) : SlotHoldsOutcome(i)

\* A batch of three calls with a value, a not-found marker and a value.
C25_Witness ==
    /\ batch.pc = "done" /\ Len(batch.calls) = 3
    /\ execs[batch.slots[1]].out.kind = "value"
    /\ execs[batch.slots[2]].out.kind = "notFound"
    /\ execs[batch.slots[3]].out.kind = "value"
    /\ batch.results[1] = execs[batch.slots[1]].out
    /\ batch.results[3] = execs[batch.slots[3]].out

\* ----------------------------------------------------------------- C26
\* C26.  executeBatch runs its calls one at a time in the given order: the
\* tool of call i+1 is not started until call i has settled, no two calls of
\* a batch are in flight at the same time, and the results are in call
\* order.
C26_BatchSequential ==
    LET started == Len(batch.slots) IN
    /\ started <= Len(batch.calls)
    /\ \A i \in 1..started :
         /\ execs[batch.slots[i]].name = batch.calls[i]
         /\ i < started => execs[batch.slots[i]].pc = "done"
         /\ \A j \in 1..started : i < j => batch.slots[i] < batch.slots[j]
    /\ Len(batch.results) = IF batch.pc = "running" THEN started - 1 ELSE started
    /\ \A i \in 1..Len(batch.results) : SlotHoldsOutcome(i)

\* The third call of a batch is in flight next to a call the user made.
C26_Witness ==
    /\ batch.pc = "running" /\ Len(batch.slots) = 3
    /\ execs[batch.slots[3]].pc = "running"
    /\ \E s \in DOMAIN execs :
         /\ execs[s].pc = "running"
         /\ \A i \in 1..3 : batch.slots[i] # s

\* ----------------------------------------------------------------- C27
\* The call count getUsageStats reports for a registered name, and the
\* place of the name in registration order (the order of getAll()).
CallsOf(n) == stats[MapGet(usageStats, n)].calls
PlaceOf(n) == CHOOSE i \in 1..Len(tools) : tools[i].name = n

\* Tool a comes before tool b: more calls, or as many and registered first.
Before(a, b) ==
    \/ CallsOf(a) > CallsOf(b)
    \/ CallsOf(a) = CallsOf(b) /\ PlaceOf(a) < PlaceOf(b)

\* C27.  getMostUsed(limit), for limit >= 0, returns min(limit, count())
\* currently registered tools ordered by descending call count, tools of
\* equal call count in registration order; tools with zero calls are
\* eligible and come last.
C27_MostUsed ==
    \A limit \in 0..MaxLimit :
        LET r == getMostUsed(limit)
            returned == {r[i].name : i \in 1..Len(r)}
        IN
        /\ Len(r) = IF limit < count THEN limit ELSE count
        /\ \A i \in 1..Len(r) : r[i].def # 0 /\ r[i].def = get(r[i].name)
        /\ \A i, j \in 1..Len(r) : i < j => Before(r[i].name, r[j].name)
        /\ \A i \in 1..Len(tools) :
             tools[i].name \notin returned =>
                \A m \in returned : Before(m, tools[i].name)

\* Three tools, the one registered last called twice, the other two never:
\* with limit 2 it comes first and the tool registered first follows.
C27_Witness ==
    /\ count = 3
    /\ CallsOf(tools[3].name) = 2
    /\ CallsOf(tools[1].name) = 0 /\ CallsOf(tools[2].name) = 0
    /\ getMostUsed(2) = <<[name |-> tools[3].name, def |-> tools[3].reg],
                          [name |-> tools[1].name, def |-> tools[1].reg]>>

\* ----------------------------------------------------------------- C30
\* A step makes an invocation through the guard; the invocation it made.
Invoked == Len(secure'.log) = Len(secure.log) + 1
Invocation == secure'.log[Len(secure'.log)]

\* The guard's lists let the tool named n through.
LetThrough(n) == isToolAllowed(guards[TheGuard], arrays, n).ret

\* The guard consults the schema and the schema rejects the params.
SchemaRejects(inv) ==
    /\ guards[TheGuard].enabled /\ guards[TheGuard].validateParams
    /\ inv.validation.sch.kind = "zodError"

\* The sandbox is not entered: no execute invocation, no change to its
\* active set, no tool called.
SandboxNotEntered(inv) ==
    /\ inv.slot = 0
    /\ UNCHANGED <<calls, nCalls, activeExecutions, executionCount>>

\* What C30 says of the invocation a step made.
SecureToolContract(inv) ==
    /\ ~LetThrough(inv.name) =>
          /\ inv.out = Err("notAllowed", 0)
          /\ SandboxNotEntered(inv)
    /\ (LetThrough(inv.name) /\ secure.schema /\ SchemaRejects(inv)) =>
          /\ inv.out = Err("validation", 0)
          /\ inv.validation.error = "Parameter validation failed"
          /\ SandboxNotEntered(inv)
    /\ (LetThrough(inv.name) /\ (~secure.schema \/ inv.validation.ret = "success")) =>
          /\ inv.slot = nCalls' /\ nCalls' = nCalls + 1
          /\ inv.out = Pending
          /\ inv.passed = IF secure.schema THEN inv.validation.data ELSE inv.params

\* C30.  The tool returned by createSecureTool never invokes the underlying
\* tool.execute when the guard does not allow the tool (it rejects with
\* 'Tool "<name>" is not allowed') or when the tool has a schema and
\* validation fails (it rejects with 'Validation failed: ...'); in both
\* cases the sandbox is not entered and its active set is unchanged;
\* otherwise it executes through sandbox.execute with the validated params.
C30_SecureTool ==
    [][(Invoked /\ Invocation.op = "secureTool") => SecureToolContract(Invocation)]_vars

\* C30 for notification handlers that return.
C30_SecureToolWhenHandlersReturn ==
    [][(Invoked /\ Invocation.op = "secureTool" /\ ~env.faulty)
          => SecureToolContract(Invocation)]_vars

\* ----------------------------------------------------------------- C28
\* A step makes an execute invocation on a registered tool.
RegistryInvoked ==
    /\ Invoked
    /\ Invocation.op = "execute"
    /\ MapHas(tools, Invocation.name)

\* The invocation is over and the tool's execute capability was not invoked,
\* neither directly nor through the sandbox.
ToolNotInvoked(inv) ==
    /\ SandboxNotEntered(inv)
    /\ execs'[inv.exec].pc = "done"
    /\ execs'[inv.exec].tool = "none"

\* validateParams is called only after isToolAllowed returned true, and the
\* tool stage is reached only after the guard's stages let the call pass.
StagesInOrder(inv) ==
    /\ inv.validation.op # "none" => inv.allowed.ret = "true"
    /\ (secure.guard /\ execs'[inv.exec].pc # "done") =>
          /\ inv.allowed.ret = "true"
          /\ secure.schema => inv.validation.ret = "success"
    /\ execs'[inv.exec].pc # "done" =>
          IF secure.sandbox
          THEN inv.slot = nCalls' /\ nCalls' = nCalls + 1
               /\ execs'[inv.exec].pc = "sandboxed"
          ELSE inv.slot = 0 /\ execs'[inv.exec].pc = "running"

\* What C28 says of the execute invocation a step made.
RegistryContract(inv) ==
    /\ StagesInOrder(inv)
    /\ (secure.guard /\ ~LetThrough(inv.name)) =>
          /\ inv.out = Err("notAllowed", 0)
          /\ execs'[inv.exec].out = Err("notAllowed", 0)
          /\ ToolNotInvoked(inv)
    /\ (secure.guard /\ LetThrough(inv.name) /\ secure.schema /\ SchemaRejects(inv)) =>
          /\ inv.out = Err("validation", 0)
          /\ inv.validation.error = "Parameter validation failed"
          /\ execs'[inv.exec].out = Err("validation", 0)
          /\ ToolNotInvoked(inv)

\* What C28 says of the invocations made through an attached sandbox that
\* sandboxes (one that is disabled passes the call on, see ExecuteBypass):
\* the tool, once invoked, received the sandboxed context, and when the
\* timer fired first the registry's execute, once settled, has rejected with
\* the timeout error.
SandboxedContract ==
    \A k \in 1..Len(secure.log) :
        LET inv == secure.log[k] IN
        (inv.op = "execute" /\ inv.slot # 0 /\ isEnabled(config)) =>
            /\ calls[inv.slot].nTool > 0 => calls[inv.slot].ctx = "sandboxed"
            /\ (calls[inv.slot].first = "timer" /\ execs[inv.exec].pc = "done") =>
                  execs[inv.exec].out =
                      Err("timeout", EffTimeout(OptionSets[calls[inv.slot].opt], config))

\* C28.  ToolRegistry.execute on a registered tool runs the stages in the
\* order Guard.isToolAllowed, Guard.validateParams (when the tool declares a
\* schema), then Sandbox.execute (when a sandbox is attached) or the direct
\* tool call: a tool blocked by the guard fails with 'Tool "<name>" is not
\* allowed' and invalid params fail with the guard's 'Parameter validation
\* failed' error, in both cases without the tool's execute capability being
\* invoked; with a sandbox attached the tool receives the sandboxed context
\* and the sandbox timeout is enforced.
C28_RegistryStages ==
    [][/\ RegistryInvoked => RegistryContract(Invocation)
       /\ SandboxedContract']_vars

\* C28 for notification handlers that return.
C28_RegistryStagesWhenHandlersReturn ==
    [][~env.faulty =>
          /\ RegistryInvoked => RegistryContract(Invocation)
          /\ SandboxedContract']_vars

\* The stages of C28 alone, whatever the handlers do.
C28_StagesInOrder == [][RegistryInvoked => StagesInOrder(Invocation)]_vars

\* ----------------------------------------------------------------- C29
\* A step makes an executeFromJSON invocation.
JsonInvoked == Invoked /\ Invocation.op = "executeFromJSON"

\* parseToolArguments fails on the text of index t: it is not JSON, or the
\* guard is enabled and the text is not an object or holds a dangerous key
\* within the depth that is scanned.
ParseFails(t) ==
    \/ ~Texts[t].valid
    \/ /\ guards[TheGuard].enabled
       /\ \/ Texts[t].value.t # "object"
          \/ hasPrototypePollution(Texts[t].value, 0)

\* The failure parseToolArguments reports for the text of index t.
DocumentedFailure(t) ==
    IF ~Texts[t].valid THEN "Invalid JSON in tool arguments"
    ELSE IF hasPrototypePollution(Texts[t].value, 0)
    THEN "Invalid tool arguments: potentially malicious content detected"
    ELSE "Tool arguments must be a JSON object"

\* The invocation went on to execute(name, parsed) with the value JSON.parse
\* makes of the text, and as an execute it does what C28 says.
ExecutesParsed(inv) ==
    /\ inv.exec = nExecs' /\ nExecs' = nExecs + 1
    /\ inv.params = Texts[inv.text].value
    /\ execs'[inv.exec].name = inv.name
    /\ MapHas(tools, inv.name) => RegistryContract(inv)

\* What C29 says of the executeFromJSON invocation a step made.
JsonContract(inv) ==
    /\ (secure.guard /\ ParseFails(inv.text)) =>
          /\ inv.parse.op = "parseToolArguments"
          /\ inv.out = Err("parse", 0)
          /\ inv.parse.error = DocumentedFailure(inv.text)
          /\ inv.exec = 0
          /\ UNCHANGED <<execs, nExecs, stats, calls, nCalls>>
    /\ (secure.guard /\ ~ParseFails(inv.text)) =>
          /\ inv.parse.op = "parseToolArguments"
          /\ ExecutesParsed(inv)
    /\ (~secure.guard /\ Texts[inv.text].valid) =>
          /\ inv.parse.op = "none"
          /\ ExecutesParsed(inv)

\* C29.  ToolRegistry.executeFromJSON(name, jsonText) with a guard attached
\* first parses the text with Guard.parseToolArguments and, when that fails
\* (invalid JSON, non-object, potentially malicious content), rejects with
\* that operation's error without invoking the tool; when parsing succeeds
\* it behaves exactly as execute(name, parsedObject); without a guard it
\* parses the JSON directly and then calls execute.
C29_ExecuteFromJSON == [][JsonInvoked => JsonContract(Invocation)]_vars

\* C29 for notification handlers that return and a guard that is enabled.
C29_ExecuteFromJSONWhenHandlersReturn ==
    [][(JsonInvoked /\ ~env.faulty /\ guards[TheGuard].enabled)
          => JsonContract(Invocation)]_vars

\* C29 for a guard that is disabled: only the text that is not JSON makes
\* the invocation differ from what C29 says.
C29_ExecuteFromJSONWhenDisabled ==
    [][(JsonInvoked /\ ~guards[TheGuard].enabled /\ Texts[Invocation.text].valid)
          => JsonContract(Invocation)]_vars

\* ----------------------------------------------------------------- C31
\* The contents of the items tracked now.
TrackedContents == {items[i].reg.content : i \in 1..Len(items)}

\* C31.  ContextManager.track of an item without an id whose content equals
\* the content of an already tracked item leaves the store unchanged; track
\* of an item with an id always stores it under that id, whatever its
\* content (so two items with equal content and different ids are both
\* tracked).
C31_TrackDeduplicates ==
    [][cLast'.op = "track" =>
          /\ (cLast'.id = NoId /\ cLast'.content \in TrackedContents) =>
                UNCHANGED <<items, hashes>>
          /\ HasId(cLast'.id) =>
                /\ MapHas(items', cLast'.id)
                /\ MapGet(items', cLast'.id).content = cLast'.content
                /\ \A i \in 1..Len(items) :
                      items[i].name # cLast'.id => items'[i] = items[i]]_vars

\* The part of C31 about items with an id.
C31_TrackWithId ==
    [][(cLast'.op = "track" /\ HasId(cLast'.id)) =>
          /\ MapHas(items', cLast'.id)
          /\ MapGet(items', cLast'.id).content = cLast'.content
          /\ \A i \in 1..Len(items) :
                items[i].name # cLast'.id => items'[i] = items[i]]_vars

\* C31 for a store in which every tracked content has its hash recorded.
C31_TrackDeduplicatesWhenHashesKept ==
    [][(cLast'.op = "track" /\ cLast'.id = NoId
        /\ cLast'.content \in TrackedContents
        /\ hasContentHash(cLast'.content)) => UNCHANGED <<items, hashes>>]_vars

\* ----------------------------------------------------------------- C40
\* C40.  After any sequence of track, remove and clear on a ContextManager,
\* hasContentHash(c) is true exactly when some currently tracked item has
\* content c; in particular this holds after removing one of two items
\* tracked with the same content under different ids, after re-tracking an
\* existing id with different content, and after remove or clear followed by
\* tracking the same content again.
C40_HashesMatchItems ==
    \A c \in Contents : hasContentHash(c) <=> c \in TrackedContents

\* The two ways C40 fails: a content that is tracked and not found, and a
\* content that is found and not tracked.
C40_TrackedNotFound == \E c \in TrackedContents : ~hasContentHash(c)
C40_FoundNotTracked == \E c \in Contents : hasContentHash(c) /\ c \notin TrackedContents

\* What holds of this.hashes: every hash in it is the hash of a content
\* that was tracked, and remove, clear and a skipped track never add one.
C40_HashesOnlyAddedByTrack ==
    [][(hashes' \ hashes) # {} =>
          /\ cLast'.op = "track"
          /\ hashes' \ hashes = {hashContent(cLast'.content)}]_vars

\* ----------------------------------------------------------------- C32
\* C32.  While the sandbox configuration is not changed, the number of
\* active execution IDs never exceeds maxConcurrentCalls in any reachable
\* state; the limit check and the registration of the new execution ID
\* happen in one synchronous step, so two overlapping execute calls can
\* never both be admitted into the last free slot.
C32_ActiveWithinLimit ==
    /\ Cardinality(activeExecutions) <= config.maxConcurrentCalls
    /\ \A s \in Slots : calls[s].id # 0 =>
          \* admitted while fewer than the limit were active: the ids are
          \* given in the step of the check, one per admitted invocation
          /\ calls[s].id <= executionCount
          /\ \A t \in Slots \ {s} : calls[t].id # calls[s].id

\* Two overlapping invocations filled the sandbox to its limit and a third
\* one was turned away at the gate.
C32_Witness ==
    /\ config.maxConcurrentCalls = 2
    /\ Cardinality(activeExecutions) = 2
    /\ \E s \in Slots : calls[s].pc = "done" /\ calls[s].out = Err("tooMany", 0)

\* ----------------------------------------------------------------- C33
\* The invocations whose wrapped tool call was started and has not settled.
ToolsInFlight == {s \in Slots : calls[s].tool = "running" /\ calls[s].ctx = "sandboxed"}

\* C33.  At any time, the number of wrapped tool calls that the sandbox has
\* started and that have not yet settled is at most maxConcurrentCalls, also
\* after some executions have timed out or have been cancelled and new
\* executions have been admitted.
C33_ToolsInFlightWithinLimit ==
    Cardinality(ToolsInFlight) <= config.maxConcurrentCalls

\* C33 for the wrapped calls of the executions that are still active.
C33_ActiveToolsWithinLimit ==
    Cardinality({s \in ToolsInFlight : calls[s].id \in activeExecutions})
        <= config.maxConcurrentCalls

\* ----------------------------------------------------------------- C34
\* The size estimate as C34 states it.
StatedEstimate(v) ==
    IF v.type \in {"null", "undefined"} THEN 0
    ELSE IF v.type = "string" THEN 2 * v.len
    ELSE IF v.type = "number" THEN 8
    ELSE IF v.type = "boolean" THEN 4
    ELSE IF v.type = "buffer" THEN v.len
    ELSE IF v.type = "object" THEN 2 * v.len
    ELSE 0

\* The step in which execute resumes with the value its wrapped call
\* resolved with.
ResumedWithValue(s) ==
    /\ calls[s].pc = "race"
    /\ calls'[s].pc # "race"
    /\ calls[s].race.kind = "value"

\* What C34 says of the size check made for invocation s.
SizeCheckContract(s) ==
    LET v == Values[calls[s].race.arg]
        limit == EffMaxOutputSize(OptionSets[calls[s].opt])
    IN
    /\ estimateSize(v) = StatedEstimate(v)
    /\ IF StatedEstimate(v) > limit
       THEN /\ SizeCheckFailed(s)
            /\ calls'[s].sizeArg = StatedEstimate(v)
            /\ calls'[s].limitArg = limit
            /\ calls'[s].pend.kind \notin {"value", "none"}
       ELSE /\ ~SizeCheckFailed(s)
            /\ calls'[s].pend = calls[s].race

\* A size check decides the outcome: a value over the limit is never
\* returned, and a value within the limit is what execute returns unless the
\* post hook fails.
SizeCheckDecides(s) ==
    LET c == calls[s]
        v == Values[c.race.arg]
        limit == EffMaxOutputSize(OptionSets[c.opt])
    IN
    (c.ctx = "sandboxed" /\ c.race.kind = "value") =>
        /\ StatedEstimate(v) > limit => c.out.kind # "value"
        /\ (StatedEstimate(v) <= limit /\ c.pc = "done") =>
              c.out = c.race \/ c.out.kind = "postHook"

\* C34.  The sandbox's size estimate of a result is 0 for null/undefined,
\* 2 x length for a string, 8 for a number, 4 for a boolean, the byte length
\* for a binary buffer, and otherwise 2 x the length of the JSON
\* serialization (0 when serialization fails); a result is rejected exactly
\* when this estimate is strictly greater than the effective limit, so a
\* result whose estimate equals the limit is returned.
C34_SizeEstimate ==
    [][\A s \in Slots :
          /\ ResumedWithValue(s) => SizeCheckContract(s)
          /\ SizeCheckDecides(s)']_vars

\* A result whose estimate equals the limit given in the options was
\* returned.
C34_Witness ==
    \E s \in Slots :
        /\ calls[s].pc = "done"
        /\ calls[s].ctx = "sandboxed"
        /\ calls[s].out.kind = "value"
        /\ OptionSets[calls[s].opt].maxOutputSize = 4
        /\ Values[calls[s].out.arg].type = "object"
        /\ StatedEstimate(Values[calls[s].out.arg]) = 4

\* ----------------------------------------------------------------- C35
\* The onBeforeExecution hook of invocation s threw or rejected.
PreHookFailed(s) == calls[s].nPre = 1 /\ calls[s].pend = Err("preHook", 0)

\* C35.  If the onBeforeExecution hook throws or rejects, the wrapped
\* tool.execute is never invoked for that invocation, ToolSandbox.execute
\* rejects with the hook's error, and the execution ID that was registered
\* for the call is removed from the active set.
C35_PreHookFailure ==
    \A s \in Slots : PreHookFailed(s) =>
        /\ calls[s].nTool = 0
        /\ calls[s].tool = "none"
        /\ calls[s].out.kind # "value"
        /\ calls[s].pc = "done" =>
              /\ calls[s].out = Err("preHook", 0)
              /\ calls[s].id \notin activeExecutions

\* C35 but for the error: execute rejects with the hook's error or, when the
\* onAfterExecution hook fails in the catch block, with that hook's error.
C35_PreHookFailureAborts ==
    \A s \in Slots : PreHookFailed(s) =>
        /\ calls[s].nTool = 0
        /\ calls[s].tool = "none"
        /\ calls[s].pc = "done" =>
              /\ calls[s].out \in {Err("preHook", 0), Err("postHook", 0)}
              /\ calls[s].out = Err("postHook", 0) => calls[s].nPost = 1
              /\ calls[s].id \notin activeExecutions

\* The case of C35_PreHookFailureAborts that C35 is about.
C35_PreHookFailureReached ==
    \E s \in Slots : PreHookFailed(s) /\ calls[s].pc = "done"
                     /\ calls[s].out = Err("preHook", 0)

\* ----------------------------------------------------------------- C36
\* Some object or array at depth d or deeper, and at depth ScanDepth at
\* most, has a dangerous key; v is the value at depth d.
RECURSIVE DangerousKeyInReach(_, _)
DangerousKeyInReach(v, d) ==
    /\ d <= ScanDepth
    /\ v.t \in {"object", "array"}
    /\ \E i \in 1..Len(v.kv) :
          v.kv[i][1] \in DangerousKeys \/ DangerousKeyInReach(v.kv[i][2], d + 1)

\* The scan as C36 states it, for every text explored: it ends and finds
\* exactly the dangerous keys at depth ScanDepth at most.
C36_ScanDepth ==
    \A t \in TextIx :
        Texts[t].valid =>
            (hasPrototypePollution(Texts[t].value, 0)
                <=> DangerousKeyInReach(Texts[t].value, 0))

\* What C36 says of the parseToolArguments call that just returned.
ScanContract ==
    /\ DangerousKeyInReach(ParsedText.value, 0) =>
          /\ gLast.ret = "failure"
          /\ gLast.error = "Invalid tool arguments: potentially malicious content detected"
    /\ ~DangerousKeyInReach(ParsedText.value, 0) =>
          /\ gLast.events = <<>>
          /\ gLast.ret = IF ParsedText.value.t = "object" THEN "success" ELSE "failure"
          /\ gLast.error # "Invalid tool arguments: potentially malicious content detected"

\* C36.  With the guard enabled, the prototype-pollution scan of
\* parseToolArguments visits every nested object and array down to depth 10
\* (root object = depth 0): a key named __proto__, constructor or prototype
\* occurring at depth <= 10 always causes the malicious-content failure,
\* keys occurring only at depth greater than 10 are not scanned and do not
\* cause failure, and the scan terminates on any input.
C36_ScanToDepthTen ==
    (Parsed /\ guards[gLast.g].enabled /\ ParsedText.valid) => ScanContract

\* C36 for notification handlers that return.
C36_ScanToDepthTenWhenHandlersReturn ==
    (Parsed /\ ~env.faulty /\ guards[gLast.g].enabled /\ ParsedText.valid) => ScanContract

\* The two sides of the depth bound are reached: a key at depth 10 rejected,
\* a key at depth 11 let through.
C36_AtDepthTenReached ==
    /\ Parsed /\ ~env.faulty /\ guards[gLast.g].enabled
    /\ ParsedText.value = Nest(ScanDepth, Polluted)
    /\ gLast.ret = "failure"
C36_BelowDepthTenReached ==
    /\ Parsed /\ ~env.faulty /\ guards[gLast.g].enabled
    /\ ParsedText.value = Nest(ScanDepth + 1, Polluted)
    /\ gLast.ret = "success"

\* ----------------------------------------------------------------- C37
\* The keys of a Map.
Keys(m) == {m[i].name : i \in 1..Len(m)}

\* C37.  After any sequence of register, registerAll, unregister, clear,
\* resetStats and execute, the set of names that have a usage-stats record
\* equals the set of registered tool names: getUsageStats returns exactly
\* one record per currently registered tool and none for an unregistered
\* name, and an execute that settles after its tool was unregistered does
\* not recreate a record.
C37_StatsForRegisteredTools ==
    /\ Keys(usageStats) = Keys(tools)
    /\ Len(getUsageStats) = Len(tools)
    /\ {getUsageStats[i].name : i \in 1..Len(getUsageStats)} = Keys(tools)
    /\ \A i, j \in 1..Len(getUsageStats) :
          getUsageStats[i].name = getUsageStats[j].name => i = j

\* The only tool was unregistered or cleared away while its execute was in
\* flight, the execute then failed, and no record came back.
C37_Witness ==
    /\ nRegs = 1 /\ nExecs = 1
    /\ execs[1].pc = "done" /\ execs[1].tool = "error"
    /\ rLast = NoRegistryCall
    /\ tools = <<>>
    /\ stats[execs[1].obj].failures = 1
    /\ getUsageStats = <<>>

\* ----------------------------------------------------------------- C38
\* What getConfig of guard g shows, the arrays by their contents.
ConfigShown(cfg, arr) ==
    [enabled |-> cfg.enabled, validateParams |-> cfg.validateParams,
     deniedTools |-> arr[cfg.deniedTools],
     allowedTools |-> IF cfg.allowedTools = NoList THEN <<>> ELSE arr[cfg.allowedTools]]

\* The guard call just made left every other instance as it was.
OtherInstancesKept ==
    \A h \in GuardIds \ {gLast'.g} :
        /\ ConfigShown(guards'[h], arrays') = ConfigShown(guards[h], arrays)
        /\ \A n \in ToolNames :
              isToolAllowed(guards'[h], arrays', n) = isToolAllowed(guards[h], arrays, n)

InstanceCalls == {"denyTool", "allowTool", "updateConfig", "setEnabled"}

\* C38.  ToolGuard instances are independent: denyTool, allowTool,
\* updateConfig and setEnabled on one instance never change what
\* isToolAllowed or getConfig return on another instance, also when an
\* instance was constructed without a deniedTools list.
C38_InstancesIndependent ==
    [][gLast'.op \in InstanceCalls => OtherInstancesKept]_vars

\* C38 for instances that were each given a deny list of their own, so that
\* none uses the array of DEFAULT_CONFIG together with another.
C38_WhenDenyListsAreDistinct ==
    [][(gLast'.op \in InstanceCalls
          /\ guards["g1"].deniedTools # guards["g2"].deniedTools)
       => OtherInstancesKept]_vars

\* denyTool on the guard constructed without a deny list has denied the
\* tool on the other guard constructed without one.
C38_DeniedOnOtherInstance ==
    /\ gLast.op = "denyTool" /\ gLast.g = "g2"
    /\ guards["g1"].deniedTools = "default" /\ guards["g1"].enabled
    /\ ~isToolAllowed(guards["g1"], arrays, gLast.name).ret
    /\ Len(arrays["default"]) = 1


\* ----------------------------------------------------------------- C39
\* Invocation s was admitted: it registered an execution id.
Admitted(s) == calls[s].id # 0
\* The promise execute returned for s has settled and its id is not active.
SettledAndReleased(s) ==
    /\ calls[s].pc = "done"
    /\ calls[s].out.kind # "none"
    /\ calls[s].id \notin activeExecutions

\* C39.  Every admitted sandboxed execute call eventually settles: provided
\* the armed timer fires and the hooks terminate, the call resolves or
\* rejects even when the tool's promise never settles, and from then on its
\* execution id is not active.
C39_AdmittedCallSettles ==
    \A s \in Slots : Admitted(s) ~> [] SettledAndReleased(s)

\* C39 when the notification handlers return and the tool does not throw
\* synchronously.
C39_SettlesWhenHandlersReturn ==
    \A s \in Slots : (Admitted(s) /\ ~env.faulty) ~> [] SettledAndReleased(s)

\* The timer of an admitted call has fired, its onTimeout handler threw, and
\* the race is still open with the tool running.
C39_TimerFiredRaceOpen ==
    \E s \in Slots :
        /\ Admitted(s) /\ calls[s].pc = "race"
        /\ calls[s].nTimeout = 1 /\ ~calls[s].timer
        /\ calls[s].race.kind = "none" /\ calls[s].tool = "running"

\* An admitted call whose tool never settled has been rejected by the timer.
C39_SettledByTimer ==
    \E s \in Slots :
        /\ SettledAndReleased(s) /\ ~env.faulty
        /\ calls[s].tool = "running" /\ calls[s].out.kind = "timeout"

====
